---- MODULE Spec2Model ----
(***************************************************************************)
(* Model of the health-data ingestion handler (server.js,                  *)
(* POST /api/health-data): the per-request, per-day accumulator, the       *)
(* sanitising of the rows and the upsert into daily_health_summary.        *)
(*                                                                         *)
(* Strings are sequences of one-character strings, so that toLowerCase,    *)
(* includes, slice, trim and the date regex are computed on the text.      *)
(* Numbers are fixed-point: the integer k stands for k / Scale.  Every     *)
(* number of the model is a multiple of 1/8, which a double represents     *)
(* exactly, so the sums and products below are the ones JavaScript gets.   *)
(***************************************************************************)
EXTENDS Integers, Sequences, FiniteSets, TLC

Scale == 8

\* ------------------------------------------------------------------------
\* JavaScript values: undefined, null, a number, NaN, a string
\* ------------------------------------------------------------------------
Undef == [t |-> "undef", n |-> 0, s |-> <<>>]
Null == [t |-> "null", n |-> 0, s |-> <<>>]
NaN == [t |-> "nan", n |-> 0, s |-> <<>>]
Num(k) == [t |-> "num", n |-> k, s |-> <<>>]
Whole(i) == Num(i * Scale)
Str(cs) == [t |-> "str", n |-> 0, s |-> cs]

\* a ?? b
IsNullish(v) == v.t \in {"undef", "null"}
Coalesce(a, b) == IF IsNullish(a) THEN b ELSE a

\* a || b : the falsy values are undefined, null, 0, NaN and ""
Truthy(v) ==
  CASE v.t = "num" -> v.n # 0
    [] v.t = "str" -> v.s # <<>>
    [] OTHER -> FALSE
Or(a, b) == IF Truthy(a) THEN a ELSE b

\* typeof v === "number"
TypeofNumber(v) == v.t \in {"num", "nan"}

\* ------------------------------------------------------------------------
\* Strings
\* ------------------------------------------------------------------------
Digits == <<"0","1","2","3","4","5","6","7","8","9">>
UpperCase == <<"A","B","C","D","E","F","G","H","I","J","K","L","M","N","O","P","Q","R","S","T","U","V","W","X","Y","Z">>
LowerCase == <<"a","b","c","d","e","f","g","h","i","j","k","l","m","n","o","p","q","r","s","t","u","v","w","x","y","z">>
WhiteSpace == {" ", "\t", "\n"}

IsDigit(c) == \E i \in 1..10 : Digits[i] = c
DigitVal(c) == (CHOOSE i \in 1..10 : Digits[i] = c) - 1

LowerChar(c) ==
  IF \E i \in 1..26 : UpperCase[i] = c
    THEN LowerCase[CHOOSE i \in 1..26 : UpperCase[i] = c]
    ELSE c
\* String.prototype.toLowerCase
toLowerCase(cs) == [i \in 1..Len(cs) |-> LowerChar(cs[i])]

\* String.prototype.includes
includes(hay, needle) ==
  \E i \in 0..(Len(hay) - Len(needle)) :
    SubSeq(hay, i + 1, i + Len(needle)) = needle

\* String.prototype.slice(0, k)
slice0(cs, k) == SubSeq(cs, 1, IF Len(cs) < k THEN Len(cs) ELSE k)

\* String.prototype.trim
RECURSIVE trimStart(_)
trimStart(cs) ==
  IF cs # <<>> /\ Head(cs) \in WhiteSpace THEN trimStart(Tail(cs)) ELSE cs
RECURSIVE trimEnd(_)
trimEnd(cs) ==
  IF cs # <<>> /\ cs[Len(cs)] \in WhiteSpace
    THEN trimEnd(SubSeq(cs, 1, Len(cs) - 1))
    ELSE cs
trim(cs) == trimEnd(trimStart(cs))

\* the decimal value of a run of digits
RECURSIVE DecVal(_)
DecVal(cs) ==
  IF cs = <<>> THEN 0
  ELSE 10 * DecVal(SubSeq(cs, 1, Len(cs) - 1)) + DigitVal(cs[Len(cs)])
AllDigits(cs) == \A i \in 1..Len(cs) : IsDigit(cs[i])

\* Number(v): "" and blank strings are 0, a run of digits is its value,
\* any other text is NaN; undefined is NaN and null is 0.
StringToNumber(cs) ==
  LET tr == trim(cs) IN
    IF tr = <<>> THEN Whole(0)
    ELSE IF AllDigits(tr) THEN Whole(DecVal(tr))
    ELSE NaN
Number(v) ==
  CASE v.t = "num" -> v
    [] v.t = "nan" -> NaN
    [] v.t = "null" -> Whole(0)
    [] v.t = "undef" -> NaN
    [] v.t = "str" -> StringToNumber(v.s)

\* String(v): a number prints its sign, its whole part and its fraction
\* (a multiple of 1/8 has at most three decimals)
RECURSIVE DecChars(_)
DecChars(i) ==
  IF i < 10 THEN <<Digits[i + 1]>>
  ELSE DecChars(i \div 10) \o <<Digits[(i % 10) + 1]>>
RECURSIVE StripZeros(_)
StripZeros(cs) ==
  IF cs # <<>> /\ cs[Len(cs)] = "0"
    THEN StripZeros(SubSeq(cs, 1, Len(cs) - 1))
    ELSE cs
NumberToString(k) ==
  LET a == IF k < 0 THEN 0 - k ELSE k
      whole == DecChars(a \div Scale)
      frac == StripZeros(DecChars(1000 + (a % Scale) * (1000 \div Scale)))
  IN (IF k < 0 THEN <<"-">> ELSE <<>>) \o whole
       \o (IF a % Scale = 0 THEN <<>> ELSE <<".">> \o Tail(frac))
String(v) ==
  CASE v.t = "str" -> v.s
    [] v.t = "num" -> NumberToString(v.n)
    [] v.t = "nan" -> <<"N","a","N">>
    [] v.t = "null" -> <<"n","u","l","l">>
    [] v.t = "undef" -> <<"u","n","d","e","f","i","n","e","d">>

\* ------------------------------------------------------------------------
\* Arithmetic on numbers (NaN is contagious)
\* ------------------------------------------------------------------------
\* a + b
Plus(a, b) == IF a.t = "nan" \/ b.t = "nan" THEN NaN ELSE Num(a.n + b.n)
\* a * 60
Times60(a) == IF a.t = "nan" THEN NaN ELSE Num(a.n * 60)
\* Math.round: the nearest integer, a tie going up
MathRound(a) ==
  IF a.t = "nan" THEN NaN
  ELSE Num(((2 * a.n + Scale) \div (2 * Scale)) * Scale)

\* ------------------------------------------------------------------------
\* Dates: new Date(text), date arithmetic and toISOString
\* ------------------------------------------------------------------------
IsLeap(y) == (y % 4 = 0 /\ y % 100 # 0) \/ y % 400 = 0
DaysInMonth(y, m) ==
  IF m = 2 THEN (IF IsLeap(y) THEN 29 ELSE 28)
  ELSE IF m \in {4, 6, 9, 11} THEN 30 ELSE 31

\* days since 1970-01-01 of a civil date (the year counted from March)
DayOfEra(yoe, m, d) ==
  yoe * 365 + yoe \div 4 - yoe \div 100
    + (153 * (IF m > 2 THEN m - 3 ELSE m + 9) + 2) \div 5 + d - 1
DaysFromMarchYear(y, m, d) ==
  (y \div 400) * 146097 + DayOfEra(y % 400, m, d) - 719468
DaysFromCivil(y, m, d) ==
  DaysFromMarchYear(IF m <= 2 THEN y - 1 ELSE y, m, d)

\* the civil date of a day number
CivilOfMonth(era, yoe, doy, mp) ==
  [y |-> yoe + era * 400 + (IF mp >= 10 THEN 1 ELSE 0),
   m |-> IF mp < 10 THEN mp + 3 ELSE mp - 9,
   d |-> doy - (153 * mp + 2) \div 5 + 1]
CivilOfDayOfYear(era, yoe, doy) ==
  CivilOfMonth(era, yoe, doy, (5 * doy + 2) \div 153)
CivilOfYearOfEra(era, doe, yoe) ==
  CivilOfDayOfYear(era, yoe, doe - (365 * yoe + yoe \div 4 - yoe \div 100))
CivilOfEra(era, doe) ==
  CivilOfYearOfEra(era, doe,
    (doe - doe \div 1460 + doe \div 36524 - doe \div 146096) \div 365)
CivilFromDays(z) ==
  CivilOfEra((z + 719468) \div 146097, (z + 719468) % 146097)

InvalidDate == [ok |-> FALSE, day |-> 0, sec |-> 0]

\* two digits at offset o of the text: their value, or -1
TwoDigits(cs, o) ==
  IF IsDigit(cs[o + 1]) /\ IsDigit(cs[o + 2])
    THEN 10 * DigitVal(cs[o + 1]) + DigitVal(cs[o + 2])
    ELSE 0 - 1

\* the date at offset o of the text, its year written with yl digits and
\* taken with the sign sg
CheckedDate(y, m, d) ==
  IF m \in 1..12 /\ d >= 1 /\ d <= DaysInMonth(y, m)
    THEN [ok |-> TRUE, y |-> y, m |-> m, d |-> d]
    ELSE [ok |-> FALSE, y |-> 0, m |-> 0, d |-> 0]
DateAt(cs, o, yl, sg) ==
  IF /\ AllDigits(SubSeq(cs, o + 1, o + yl))
     /\ cs[o + yl + 1] = "-" /\ cs[o + yl + 4] = "-"
    THEN CheckedDate(sg * DecVal(SubSeq(cs, o + 1, o + yl)),
                     TwoDigits(cs, o + yl + 1), TwoDigits(cs, o + yl + 4))
    ELSE [ok |-> FALSE, y |-> 0, m |-> 0, d |-> 0]

\* HH:MM:SS at offset o of the text, in seconds
CheckedTime(h, m, s) ==
  IF h \in 0..23 /\ m \in 0..59 /\ s \in 0..59
    THEN [ok |-> TRUE, sec |-> h * 3600 + m * 60 + s]
    ELSE [ok |-> FALSE, sec |-> 0]
TimeAt(cs, o) ==
  IF cs[o + 3] = ":" /\ cs[o + 6] = ":"
    THEN CheckedTime(TwoDigits(cs, o), TwoDigits(cs, o + 3), TwoDigits(cs, o + 6))
    ELSE [ok |-> FALSE, sec |-> 0]

\* a zone +HHMM (colon = 0) or +HH:MM (colon = 1) at offset o, in seconds
CheckedZone(sg, h, m) ==
  IF h \in 0..23 /\ m \in 0..59
    THEN [ok |-> TRUE, sec |-> sg * (h * 3600 + m * 60)]
    ELSE [ok |-> FALSE, sec |-> 0]
ZoneAt(cs, o, colon) ==
  IF cs[o + 1] \in {"+", "-"} /\ (colon = 1 => cs[o + 4] = ":")
    THEN CheckedZone(IF cs[o + 1] = "-" THEN 0 - 1 ELSE 1,
                     TwoDigits(cs, o + 1), TwoDigits(cs, o + 3 + colon))
    ELSE [ok |-> FALSE, sec |-> 0]

\* the instant of a local date and time in a zone: UTC day and second
InstantAt(days, s) ==
  [ok |-> TRUE, day |-> days + (s \div 86400), sec |-> s % 86400]
Instant(dt, tm, zn) ==
  IF ~(dt.ok /\ tm.ok /\ zn.ok) THEN InvalidDate
  ELSE InstantAt(DaysFromCivil(dt.y, dt.m, dt.d), tm.sec - zn.sec)

Midnight == [ok |-> TRUE, sec |-> 0]
Utc == [ok |-> TRUE, sec |-> 0]

\* the layout of a timestamp text: where its date, time and zone are.
\*   YYYY-MM-DD                      (UTC midnight)
\*   YYYY-MM-DD HH:MM:SS +HHMM       (Health Auto Export)
\*   YYYY-MM-DDTHH:MM:SSZ            (ISO 8601)
\*   +YYYYYY-MM-DDTHH:MM:SSZ         (ISO 8601, expanded year)
\*   +YYYYYY-MM-DDTHH:MM:SS+HH:MM
NoLayout == [ok |-> FALSE, o |-> 0, yl |-> 4, time |-> 0, zone |-> 0, colon |-> 0]
Layout(cs) ==
  CASE Len(cs) = 10 ->
         [ok |-> TRUE, o |-> 0, yl |-> 4, time |-> 0, zone |-> 0, colon |-> 0]
    [] Len(cs) = 25 /\ cs[11] = " " /\ cs[20] = " " ->
         [ok |-> TRUE, o |-> 0, yl |-> 4, time |-> 11, zone |-> 20, colon |-> 0]
    [] Len(cs) = 20 /\ cs[11] = "T" /\ cs[20] = "Z" ->
         [ok |-> TRUE, o |-> 0, yl |-> 4, time |-> 11, zone |-> 0, colon |-> 0]
    [] Len(cs) = 23 /\ cs[1] \in {"+", "-"} /\ cs[14] = "T" /\ cs[23] = "Z" ->
         [ok |-> TRUE, o |-> 1, yl |-> 6, time |-> 14, zone |-> 0, colon |-> 0]
    [] Len(cs) = 28 /\ cs[1] \in {"+", "-"} /\ cs[14] = "T" ->
         [ok |-> TRUE, o |-> 1, yl |-> 6, time |-> 14, zone |-> 22, colon |-> 1]
    [] OTHER -> NoLayout

\* new Date(text) for a text of these layouts, Invalid Date for any other
ParseLayout(cs, l) ==
  IF ~l.ok THEN InvalidDate
  ELSE Instant(DateAt(cs, l.o, l.yl, IF cs[1] = "-" THEN 0 - 1 ELSE 1),
               IF l.time = 0 THEN Midnight ELSE TimeAt(cs, l.time),
               IF l.zone = 0 THEN Utc ELSE ZoneAt(cs, l.zone, l.colon))
ParseDate(cs) == ParseLayout(cs, Layout(cs))

\* new Date(v): undefined gives Invalid Date
NewDate(v) == IF v.t = "str" THEN ParseDate(v.s) ELSE InvalidDate

\* a whole number in w digits, zero padded
RECURSIVE Pad(_, _)
Pad(i, w) == IF w = 0 THEN <<>> ELSE Pad(i \div 10, w - 1) \o <<Digits[(i % 10) + 1]>>

\* the date part of Date.prototype.toISOString: YYYY-MM-DD for the years
\* 0..9999, and a sign and six digits for any other year
IsoYear(y) ==
  IF y >= 0 /\ y <= 9999 THEN Pad(y, 4)
  ELSE IF y < 0 THEN <<"-">> \o Pad(0 - y, 6)
  ELSE <<"+">> \o Pad(y, 6)
IsoDate(c) == IsoYear(c.y) \o <<"-">> \o Pad(c.m, 2) \o <<"-">> \o Pad(c.d, 2)
toISODate(inst) == IsoDate(CivilFromDays(inst.day))

\* (end - start) / 60000, in minutes; the timestamps of the model differ
\* by multiples of 7.5 seconds
MinutesBetween(start, end) ==
  Num((((end.day - start.day) * 86400 + (end.sec - start.sec)) * Scale) \div 60)

\* /^\d{4}-\d{2}-\d{2}$/.test(cs)
IsYmd(cs) ==
  /\ Len(cs) = 10
  /\ \A i \in {1, 2, 3, 4, 6, 7, 9, 10} : IsDigit(cs[i])
  /\ cs[5] = "-" /\ cs[8] = "-"

\* ------------------------------------------------------------------------
\* The per-day summary aggregator
\* ------------------------------------------------------------------------
\* the record ensureDay creates for a new day
NewDaySummary(userId, day) ==
  [user_id |-> userId,
   date |-> day,
   resting_hr |-> Null,
   hrv |-> Null,
   sleep_duration_minutes |-> Whole(0),
   sleep_deep_minutes |-> Whole(0),
   sleep_rem_minutes |-> Whole(0),
   sleep_core_minutes |-> Whole(0),
   sleep_awake_minutes |-> Whole(0),
   systolic |-> Null,
   diastolic |-> Null,
   weight |-> Null,
   body_fat_percentage |-> Null,
   glucose |-> Null,
   steps |-> Whole(0),
   active_calories |-> Whole(0),
   basal_calories |-> Whole(0)]

\* the day a date string resolves to: its text, or ok = FALSE for null
NoDay == [ok |-> FALSE, day |-> <<>>]
DayOfParsed(parsed) ==
  IF ~parsed.ok THEN NoDay
  ELSE [ok |-> TRUE, day |-> slice0(toISODate(parsed), 10)]
DayOfTrimmed(trimmed, first10) ==
  IF IsYmd(first10) THEN [ok |-> TRUE, day |-> first10]
  ELSE DayOfParsed(ParseDate(trimmed))
DayOfText(trimmed) == DayOfTrimmed(trimmed, slice0(trimmed, 10))
ResolveDay(dateStr) ==
  IF ~Truthy(dateStr) THEN NoDay ELSE DayOfText(trim(String(dateStr)))

\* summary is the object's entries in insertion order, which is the order
\* of Object.values; summary[day] is the entry whose key is day
HasDay(sm, day) == \E i \in 1..Len(sm) : sm[i].date = day
DayIndex(sm, day) == CHOOSE i \in 1..Len(sm) : sm[i].date = day

\* ensureDay(dateStr): the summary after the call and the index of the
\* row returned (0 for null)
EnsureResolved(sm, userId, r) ==
  IF ~r.ok THEN [summary |-> sm, row |-> 0]
  ELSE IF HasDay(sm, r.day) THEN [summary |-> sm, row |-> DayIndex(sm, r.day)]
  ELSE [summary |-> Append(sm, NewDaySummary(userId, r.day)),
        row |-> Len(sm) + 1]
ensureDay(sm, userId, dateStr) == EnsureResolved(sm, userId, ResolveDay(dateStr))

\* ------------------------------------------------------------------------
\* Known metric names
\* ------------------------------------------------------------------------
resting_heart_rate == <<"r","e","s","t","i","n","g","_","h","e","a","r","t","_","r","a","t","e">>
heart_rate_variability_sdnn == <<"h","e","a","r","t","_","r","a","t","e","_","v","a","r","i","a","b","i","l","i","t","y","_","s","d","n","n">>
heart_rate_variability == <<"h","e","a","r","t","_","r","a","t","e","_","v","a","r","i","a","b","i","l","i","t","y">>
step_count == <<"s","t","e","p","_","c","o","u","n","t">>
sleep_analysis == <<"s","l","e","e","p","_","a","n","a","l","y","s","i","s">>
active_energy_burned == <<"a","c","t","i","v","e","_","e","n","e","r","g","y","_","b","u","r","n","e","d">>
active_energy == <<"a","c","t","i","v","e","_","e","n","e","r","g","y">>
basal_energy_burned == <<"b","a","s","a","l","_","e","n","e","r","g","y","_","b","u","r","n","e","d">>
body_mass == <<"b","o","d","y","_","m","a","s","s">>
weight_body_mass == <<"w","e","i","g","h","t","_","b","o","d","y","_","m","a","s","s">>
body_fat_percentage == <<"b","o","d","y","_","f","a","t","_","p","e","r","c","e","n","t","a","g","e">>
blood_glucose == <<"b","l","o","o","d","_","g","l","u","c","o","s","e">>
blood_pressure_systolic == <<"b","l","o","o","d","_","p","r","e","s","s","u","r","e","_","s","y","s","t","o","l","i","c">>
blood_pressure_diastolic == <<"b","l","o","o","d","_","p","r","e","s","s","u","r","e","_","d","i","a","s","t","o","l","i","c">>

knownNames ==
  <<resting_heart_rate, heart_rate_variability_sdnn, heart_rate_variability,
    step_count, sleep_analysis, active_energy_burned, active_energy,
    basal_energy_burned, body_mass, weight_body_mass, body_fat_percentage,
    blood_glucose, blood_pressure_systolic, blood_pressure_diastolic>>

\* const name = (metric.name || "").toLowerCase()
MetricName(metricName) == toLowerCase(Or(metricName, Str(<<>>)).s)

\* knownNames.some((k) => name === k || name.includes(k))
isKnown(name) ==
  \E i \in 1..Len(knownNames) :
    name = knownNames[i] \/ includes(name, knownNames[i])

\* ------------------------------------------------------------------------
\* The main merge loop, one data point at a time
\* ------------------------------------------------------------------------
\* d.date || d.end || d.endDate || d.start || d.startDate
DateStrOf(d) == Or(d.date, Or(d.end, Or(d.endDate, Or(d.start, d.startDate))))

\* (A) the summary-object format: some hour total is a number
hasSummaryHours(d) ==
  \/ TypeofNumber(d.totalSleep)
  \/ TypeofNumber(d.deep)
  \/ TypeofNumber(d.rem)
  \/ TypeofNumber(d.core)
  \/ TypeofNumber(d.awake)

\* Math.round((Number(h) || 0) * 60)
HoursToMinutes(h) == MathRound(Times60(Or(Number(h), Whole(0))))

\* a summary object that adds to the totals instead of overwriting them
SleepSummaryRowAdds(row, d) ==
  [row EXCEPT !.sleep_duration_minutes = Plus(@, HoursToMinutes(d.totalSleep)),
              !.sleep_deep_minutes = Plus(@, HoursToMinutes(d.deep)),
              !.sleep_rem_minutes = Plus(@, HoursToMinutes(d.rem)),
              !.sleep_core_minutes = Plus(@, HoursToMinutes(d.core)),
              !.sleep_awake_minutes = Plus(@, HoursToMinutes(d.awake))]

\* the sleep row overwritten by a summary object
SleepSummaryRow(row, d) ==
  [row EXCEPT !.sleep_duration_minutes = HoursToMinutes(d.totalSleep),
              !.sleep_deep_minutes = HoursToMinutes(d.deep),
              !.sleep_rem_minutes = HoursToMinutes(d.rem),
              !.sleep_core_minutes = HoursToMinutes(d.core),
              !.sleep_awake_minutes = HoursToMinutes(d.awake)]

\* the stage bucket of a segment: 0 = awake, 1 = asleep, 2 = core,
\* 3 = deep, 4 = rem; "none" when no branch is taken
StageBucket(stage) ==
  IF (stage.t = "num" /\ stage.n = 0)
       \/ toLowerCase(String(stage)) = <<"a","w","a","k","e">> THEN "awake"
  ELSE IF (stage.t = "num" /\ stage.n = 3 * Scale)
       \/ String(stage) = <<"D","e","e","p">> THEN "deep"
  ELSE IF (stage.t = "num" /\ stage.n = 4 * Scale)
       \/ String(stage) = <<"R","E","M">> THEN "rem"
  ELSE IF stage.t = "num" /\ stage.n \in {2 * Scale, 1 * Scale} THEN "core"
  ELSE "none"

\* (B) the sleep row after a segment of the given minutes and stage
AddToBucket(row, b, minutes) ==
  CASE b = "awake" -> [row EXCEPT !.sleep_awake_minutes = Plus(@, minutes)]
    [] b = "deep" -> [row EXCEPT !.sleep_deep_minutes = Plus(@, minutes)]
    [] b = "rem" -> [row EXCEPT !.sleep_rem_minutes = Plus(@, minutes)]
    [] b = "core" -> [row EXCEPT !.sleep_core_minutes = Plus(@, minutes)]
    [] OTHER -> row
SleepSegmentRow(row, minutes, stage) ==
  AddToBucket([row EXCEPT !.sleep_duration_minutes = Plus(@, minutes)],
              StageBucket(stage), minutes)

\* (B) a segment from start to end, on the row e of ensureDay
SegmentOfMinutes(e, minutes, stage) ==
  IF minutes.n <= 0 THEN e.summary
  ELSE [e.summary EXCEPT ![e.row] = SleepSegmentRow(@, minutes, stage)]
SegmentPoint(e, start, end, stage) ==
  IF ~start.ok \/ ~end.ok THEN e.summary
  ELSE SegmentOfMinutes(e, MinutesBetween(start, end), stage)

\* the sleep_analysis branch of the loop body, on the row e of ensureDay
SleepOnRow(e, d) ==
  IF e.row = 0 THEN e.summary
  ELSE IF hasSummaryHours(d)
    THEN [e.summary EXCEPT ![e.row] = SleepSummaryRow(@, d)]
  ELSE SegmentPoint(e, NewDate(Or(d.start, d.startDate)),
                    NewDate(Or(d.end, d.endDate)), d.value)

\* d.qty ?? d.avg ?? d.value ?? d.min ?? d.max ?? null
ValueOf(d) ==
  Coalesce(d.qty, Coalesce(d.avg, Coalesce(d.value,
    Coalesce(d.min, Coalesce(d.max, Null)))))

\* the mappings 1) to 9) of a value of the named metric, one after the other
RestingHr(row, name, value) ==
  IF includes(name, resting_heart_rate)
    THEN [row EXCEPT !.resting_hr = Number(value)] ELSE row
Hrv(row, name, value) ==
  IF includes(name, heart_rate_variability_sdnn) \/ name = heart_rate_variability
    THEN [row EXCEPT !.hrv = Number(value)] ELSE row
Steps(row, name, value) ==
  IF includes(name, step_count)
    THEN [row EXCEPT !.steps = Plus(@, Number(Or(value, Whole(0))))] ELSE row
ActiveCalories(row, name, value) ==
  IF includes(name, active_energy_burned) \/ name = active_energy
    THEN [row EXCEPT !.active_calories = Plus(@, Number(Or(value, Whole(0))))]
    ELSE row
BasalCalories(row, name, value) ==
  IF includes(name, basal_energy_burned)
    THEN [row EXCEPT !.basal_calories = Plus(@, Number(Or(value, Whole(0))))]
    ELSE row
Weight(row, name, value) ==
  IF includes(name, body_mass) \/ includes(name, weight_body_mass)
    THEN [row EXCEPT !.weight = Number(value)] ELSE row
BodyFat(row, name, value) ==
  IF includes(name, body_fat_percentage)
    THEN [row EXCEPT !.body_fat_percentage = Number(value)] ELSE row
Glucose(row, name, value) ==
  IF includes(name, blood_glucose)
    THEN [row EXCEPT !.glucose = Number(value)] ELSE row
\* a systolic reading that also sets the diastolic field
SystolicOnBoth(row, name, value) ==
  IF includes(name, blood_pressure_systolic)
    THEN [row EXCEPT !.systolic = Number(value), !.diastolic = Number(value)]
    ELSE row
Systolic(row, name, value) ==
  IF includes(name, blood_pressure_systolic)
    THEN [row EXCEPT !.systolic = Number(value)] ELSE row
Diastolic(row, name, value) ==
  IF includes(name, blood_pressure_diastolic)
    THEN [row EXCEPT !.diastolic = Number(value)] ELSE row
MetricRow(row, name, value) ==
  Diastolic(Systolic(Glucose(BodyFat(Weight(BasalCalories(ActiveCalories(
    Steps(Hrv(RestingHr(row, name, value), name, value), name, value),
    name, value), name, value), name, value), name, value), name, value),
    name, value), name, value)

\* the non-sleep branch of the loop body, on the row e of ensureDay
MetricOnRow(e, name, value) ==
  IF e.row = 0 THEN e.summary
  ELSE IF IsNullish(value) THEN e.summary
  ELSE [e.summary EXCEPT ![e.row] = MetricRow(@, name, value)]

\* the body of "for (const d of dataPoints)" for a metric of that name
PointOnRow(e, name, d) ==
  IF includes(name, sleep_analysis) THEN SleepOnRow(e, d)
  ELSE MetricOnRow(e, name, ValueOf(d))
DataPoint(sm, userId, name, d) ==
  IF ~Truthy(DateStrOf(d)) THEN sm
  ELSE PointOnRow(ensureDay(sm, userId, DateStrOf(d)), name, d)

\* ------------------------------------------------------------------------
\* Build rows and sanitize
\* ------------------------------------------------------------------------
\* Math.round(x || 0)
RoundOrZero(x) == MathRound(Or(x, Whole(0)))

SanitizeRow(r) ==
  [r EXCEPT !.steps = RoundOrZero(@),
            !.active_calories = RoundOrZero(@),
            !.basal_calories = RoundOrZero(@),
            !.sleep_duration_minutes = RoundOrZero(@),
            !.sleep_deep_minutes = RoundOrZero(@),
            !.sleep_rem_minutes = RoundOrZero(@),
            !.sleep_core_minutes = RoundOrZero(@),
            !.sleep_awake_minutes = RoundOrZero(@)]

\* rows = Object.values(summary).map(...)
SanitizeRows(sm) == [i \in 1..Len(sm) |-> SanitizeRow(sm[i])]

\* ------------------------------------------------------------------------
\* The store: daily_health_summary, UNIQUE(user_id, date)
\* ------------------------------------------------------------------------
SameKey(a, b) == a.user_id = b.user_id /\ a.date = b.date

\* a store that merges: a null field of the new row keeps the stored value
MergedInto(st, n) ==
  IF \E s \in st : SameKey(s, n)
    THEN [f \in DOMAIN n |->
            IF n[f] = Null THEN (CHOOSE s \in st : SameKey(s, n))[f]
            ELSE n[f]]
  ELSE n
UpsertRowsMerging(st, rws) ==
  {s \in st : \A i \in 1..Len(rws) : ~SameKey(s, rws[i])}
    \cup {MergedInto(st, rws[i]) : i \in 1..Len(rws)}
\* upsert(rows, { onConflict: "user_id,date" }): a row replaces the stored
\* row of its key, whole
UpsertRows(st, rws) ==
  {s \in st : \A i \in 1..Len(rws) : ~SameKey(s, rws[i])}
    \cup {rws[i] : i \in 1..Len(rws)}

\* ------------------------------------------------------------------------
\* The requests the model draws: user ids, metric names and data points
\* ------------------------------------------------------------------------
MaxSamples == 2

Requests == {1, 2}

UidInputs == {Undef, Str(<<"u","1">>)}
UserIdInputs == {Undef, Str(<<"u","1">>), Str(<<"u","2">>)}

\* a data point with no field
Blank ==
  [date |-> Undef, end |-> Undef, endDate |-> Undef, start |-> Undef,
   startDate |-> Undef, qty |-> Undef, avg |-> Undef, value |-> Undef,
   min |-> Undef, max |-> Undef, totalSleep |-> Undef, deep |-> Undef,
   rem |-> Undef, core |-> Undef, awake |-> Undef]

Day1 == Str(<<"2","0","2","5","-","1","2","-","0","9"," ","0","0",":","0","0",":","0","0"," ","+","0","0","0","0">>)
Day2 == Str(<<"2","0","2","5","-","1","2","-","1","0"," ","0","0",":","0","0",":","0","0"," ","+","0","0","0","0">>)
At0100 == Str(<<"2","0","2","5","-","1","2","-","0","9"," ","0","1",":","0","0",":","0","0"," ","+","0","0","0","0">>)
At0300 == Str(<<"2","0","2","5","-","1","2","-","0","9"," ","0","3",":","0","0",":","0","0"," ","+","0","0","0","0">>)
At0700 == Str(<<"2","0","2","5","-","1","2","-","0","9"," ","0","7",":","0","0",":","0","0"," ","+","0","0","0","0">>)
At0800 == Str(<<"2","0","2","5","-","1","2","-","0","9"," ","0","8",":","0","0",":","0","0"," ","+","0","0","0","0">>)
At080030 == Str(<<"2","0","2","5","-","1","2","-","0","9"," ","0","8",":","0","0",":","3","0"," ","+","0","0","0","0">>)
Evening == Str(<<"2","0","2","5","-","1","2","-","0","9"," ","2","2",":","0","0",":","0","0"," ","-","0","8","0","0">>)
IsoEvening == Str(<<"+","0","0","2","0","2","5","-","1","2","-","0","9","T","2","2",":","0","0",":","0","0","-","0","8",":","0","0">>)
IsoZ == Str(<<"2","0","2","5","-","1","2","-","1","0","T","0","6",":","0","0",":","0","0","Z">>)
DateOnly == Str(<<"2","0","2","5","-","1","2","-","1","0">>)
Padded == Str(<<" "," ","2","0","2","5","-","1","2","-","0","9"," ","0","0",":","0","0",":","0","0"," ","+","0","0","0","0"," ">>)
Year10000 == Str(<<"+","0","1","0","0","0","0","-","0","1","-","0","1","T","0","0",":","0","0",":","0","0","Z">>)
Yesterday == Str(<<"y","e","s","t","e","r","d","a","y">>)
Month13 == Str(<<"2","0","2","5","-","1","3","-","4","5">>)

\* the metric names of the exports, and names no mapping knows
NameInputs ==
  {Str(n) : n \in
     {resting_heart_rate, heart_rate_variability_sdnn, heart_rate_variability,
      step_count, active_energy_burned, active_energy, basal_energy_burned,
      body_mass, weight_body_mass, body_fat_percentage, blood_glucose,
      blood_pressure_systolic, blood_pressure_diastolic,
      <<"H","e","a","r","t","R","a","t","e","V","a","r","i","a","b","i","l","i","t","y","S","D","N","N">>, <<"H","e","a","r","t","_","R","a","t","e","_","V","a","r","i","a","b","i","l","i","t","y","_","S","D","N","N">>,
      <<"h","e","a","r","t","_","r","a","t","e","_","v","a","r","i","a","b","i","l","i","t","y","_","r","m","s","s","d">>, <<"a","p","p","l","e","_","a","c","t","i","v","e","_","e","n","e","r","g","y">>,
      <<"S","t","e","p","_","C","o","u","n","t">>, <<"b","o","d","y","_","t","e","m","p","e","r","a","t","u","r","e">>}}
    \cup {Undef}

\* one reading of every name
NamePoints ==
  {[metric |-> n, d |-> [Blank EXCEPT !.date = Day1, !.qty = Whole(72)]] :
     n \in NameInputs}

\* readings under every kind of date
DatePoints ==
  {[metric |-> Str(step_count), d |-> [dd EXCEPT !.qty = Whole(60)]] :
     dd \in {[Blank EXCEPT !.date = ts] :
               ts \in {Day2, Evening, IsoEvening, IsoZ, DateOnly, Padded,
                       Year10000, Yesterday, Month13, Str(<<>>), Null}}
            \cup {[Blank EXCEPT !.end = Day2, !.start = Day1],
                  [Blank EXCEPT !.endDate = Day2],
                  [Blank EXCEPT !.startDate = Day2],
                  Blank}}
    \cup {[metric |-> Str(resting_heart_rate),
           d |-> [Blank EXCEPT !.date = Day2, !.qty = Whole(55)]]}

\* readings carrying every kind of value
ValueShapes ==
  {[Blank EXCEPT !.qty = Num(4)],
   [Blank EXCEPT !.qty = Whole(0 - 5)],
   [Blank EXCEPT !.qty = Str(<<"a","b","c">>)],
   [Blank EXCEPT !.qty = Str(<<"a","b","c">>), !.avg = Whole(60)],
   [Blank EXCEPT !.qty = Null, !.avg = Whole(60)],
   [Blank EXCEPT !.qty = Str(<<"7","2">>)],
   [Blank EXCEPT !.value = Whole(0)],
   [Blank EXCEPT !.avg = Whole(61), !.max = Whole(90)],
   [Blank EXCEPT !.min = Whole(50), !.max = Whole(90)],
   [Blank EXCEPT !.max = Whole(90)],
   Blank}
ValuePoints ==
  {[metric |-> Str(n), d |-> [v EXCEPT !.date = Day1]] :
     n \in {resting_heart_rate, step_count}, v \in ValueShapes}

\* sleep summaries, in hours
SleepSummaries ==
  {[Blank EXCEPT !.date = Day1, !.totalSleep = Num(60)],
   [Blank EXCEPT !.date = Day1, !.totalSleep = Whole(8), !.deep = Whole(1),
                 !.rem = Whole(2), !.core = Whole(4), !.awake = Whole(1)],
   [Blank EXCEPT !.date = Day1, !.totalSleep = Whole(0 - 1)],
   [Blank EXCEPT !.date = Day1, !.totalSleep = Num(1), !.deep = Str(<<"a","b","c">>)],
   [Blank EXCEPT !.date = Day2, !.deep = Whole(1)]}

\* sleep segments: start, end and stage
Segment(s, e, stage) == [Blank EXCEPT !.start = s, !.end = e, !.value = stage]
SleepSegments ==
  {Segment(Day1, At0100, Whole(3)),
   Segment(At0100, At0300, Whole(4)),
   Segment(At0300, At0700, Whole(2)),
   Segment(At0700, At0800, Whole(0)),
   Segment(Day1, At0100, Whole(1)),
   Segment(Day1, At0100, Whole(5)),
   Segment(Day1, At0100, Str(<<"D","e","e","p">>)),
   Segment(Day1, At0100, Str(<<"d","e","e","p">>)),
   Segment(Day1, At0100, Str(<<"R","E","M">>)),
   Segment(Day1, At0100, Str(<<"A","w","a","k","e">>)),
   Segment(Day1, At0100, Str(<<"C","o","r","e">>)),
   Segment(Day1, At0100, Str(<<"c","o","r","e">>)),
   Segment(Day1, At0100, Str(<<"A","s","l","e","e","p">>)),
   Segment(At0800, At080030, Whole(3)),
   Segment(At0800, At080030, Whole(4)),
   Segment(At0100, At0100, Whole(3)),
   Segment(At0300, At0100, Whole(3)),
   Segment(Yesterday, At0100, Whole(3)),
   Segment(Evening, Day2, Whole(2)),
   [Blank EXCEPT !.startDate = Day1, !.endDate = At0100, !.value = Whole(3)],
   [Blank EXCEPT !.date = Day2, !.value = Whole(3)]}
SleepPoints ==
  {[metric |-> Str(sleep_analysis), d |-> dd] :
     dd \in SleepSummaries \cup SleepSegments}
    \cup {[metric |-> Str(<<"S","l","e","e","p","_","A","n","a","l","y","s","i","s">>),
           d |-> Segment(Day1, At0100, Whole(3))]}

Points == NamePoints \cup DatePoints \cup ValuePoints \cup SleepPoints

\* the data points of the two concurrent requests
ConcPoints ==
  {[metric |-> Str(step_count), d |-> [Blank EXCEPT !.date = Day1, !.qty = Whole(60)]],
   [metric |-> Str(resting_heart_rate),
    d |-> [Blank EXCEPT !.date = Day1, !.qty = Whole(55)]],
   [metric |-> Str(step_count), d |-> [Blank EXCEPT !.date = Day2, !.qty = Whole(72)]],
   [metric |-> Str(sleep_analysis),
    d |-> [Blank EXCEPT !.date = Day1, !.totalSleep = Num(60)]]}

\* ------------------------------------------------------------------------
\* State
\* ------------------------------------------------------------------------
VARIABLES
  pc,        \* pc[r]: "idle", "loop", "upsert" (awaiting the store), "done"
  userId,    \* userId[r]: req.query.uid || req.body.user_id
  summary,   \* summary[r]: the per-day aggregator of the request
  metric,    \* metric[r]: metric.name of the current metric
  d,         \* d[r]: the current data point
  count,     \* count[r]: the data points and empty metrics gone through
  rows,      \* rows[r]: the sanitized rows handed to the upsert
  response,  \* response[r]: the answer sent, "" before
  store,     \* the rows of daily_health_summary
  applied,   \* the requests whose upsert the store applied, in order
  before,    \* before[r]: the aggregator when the current iteration began
  own,       \* own[r]: what the data points of request r alone add up to
  dayRow,    \* the row handed to computeReadiness
  readiness, \* what computeReadiness returned, Undef before
  weekly,    \* the rows and options handed to the weekly report builders
  report     \* what the weekly report builders returned, Undef before

ingestVars ==
  <<pc, userId, summary, metric, d, count, rows, response, store, applied,
    before, own>>
calcVars == <<dayRow, readiness, weekly, report>>
vars == <<ingestVars, calcVars>>

\* one aggregator at module level, shared by every request
SummaryOfShared(r) == 1

\* the aggregator a request accumulates in: `const summary = {}` is local
\* to the handler
SummaryOf(r) == r

\* no request has come in
IngestIdle ==
  /\ pc = [r \in Requests |-> "idle"]
  /\ userId = [r \in Requests |-> Undef]
  /\ summary = [r \in Requests |-> <<>>]
  /\ metric = [r \in Requests |-> Undef]
  /\ d = [r \in Requests |-> Blank]
  /\ count = [r \in Requests |-> 0]
  /\ rows = [r \in Requests |-> <<>>]
  /\ response = [r \in Requests |-> ""]
  /\ store = {}
  /\ applied = <<>>
  /\ before = [r \in Requests |-> <<>>]
  /\ own = [r \in Requests |-> <<>>]

\* nothing has been asked of the readiness and weekly calculators
CalcIdle ==
  /\ dayRow = Null
  /\ readiness = Undef
  /\ weekly = Undef
  /\ report = Undef

Init == IngestIdle /\ CalcIdle

Respond(r, msg) ==
  /\ pc' = [pc EXCEPT ![r] = "done"]
  /\ response' = [response EXCEPT ![r] = msg]

\* the handler up to the merge loop: the user mapping and the metrics check
Receive(r, uid, user_id, hasMetrics) ==
  /\ pc[r] = "idle"
  /\ LET u == Or(uid, user_id) IN
       IF ~Truthy(u)
         THEN /\ Respond(r, "400 Missing user_id/uid")
              /\ UNCHANGED <<userId, summary>>
       ELSE IF ~hasMetrics
         THEN /\ Respond(r, "200 No metrics in payload")
              /\ userId' = [userId EXCEPT ![r] = u]
              /\ UNCHANGED summary
       ELSE /\ pc' = [pc EXCEPT ![r] = "loop"]
            /\ userId' = [userId EXCEPT ![r] = u]
            /\ summary' = [summary EXCEPT ![SummaryOf(r)] = <<>>]
            /\ UNCHANGED response
  /\ UNCHANGED <<metric, d, count, rows, store, applied, before, own>>
  /\ UNCHANGED calcVars

\* one data point of one metric goes through the loop body
ProcessDataPoint(r, p) ==
  /\ pc[r] = "loop"
  /\ count[r] < MaxSamples
  /\ metric' = [metric EXCEPT ![r] = p.metric]
  /\ d' = [d EXCEPT ![r] = p.d]
  /\ count' = [count EXCEPT ![r] = @ + 1]
  /\ summary' = [summary EXCEPT ![SummaryOf(r)] =
                   DataPoint(@, userId[r], MetricName(p.metric), p.d)]
  /\ before' = [before EXCEPT ![r] = summary[SummaryOf(r)]]
  /\ own' = [own EXCEPT ![r] =
               DataPoint(@, userId[r], MetricName(p.metric), p.d)]
  /\ UNCHANGED <<pc, userId, rows, response, store, applied>>
  /\ UNCHANGED calcVars

\* a metric with no data points: the loop goes on to the next metric
EmptyMetric(r, m) ==
  /\ pc[r] = "loop"
  /\ count[r] < MaxSamples
  /\ metric' = [metric EXCEPT ![r] = m]
  /\ d' = [d EXCEPT ![r] = Blank]
  /\ count' = [count EXCEPT ![r] = @ + 1]
  /\ before' = [before EXCEPT ![r] = summary[SummaryOf(r)]]
  /\ UNCHANGED <<pc, userId, summary, rows, response, store, applied, own>>
  /\ UNCHANGED calcVars

\* the loop is over: build the rows, sanitize them and send the upsert
BuildRows(r) ==
  /\ pc[r] = "loop"
  /\ count[r] >= 1
  /\ IF Len(summary[SummaryOf(r)]) = 0
       THEN /\ Respond(r, "200 No valid data to insert")
            /\ UNCHANGED rows
       ELSE /\ rows' = [rows EXCEPT ![r] = SanitizeRows(summary[SummaryOf(r)])]
            /\ pc' = [pc EXCEPT ![r] = "upsert"]
            /\ UNCHANGED response
  /\ metric' = [metric EXCEPT ![r] = Undef]
  /\ d' = [d EXCEPT ![r] = Blank]
  /\ before' = [before EXCEPT ![r] = <<>>]
  /\ UNCHANGED <<userId, summary, count, store, applied, own>>
  /\ UNCHANGED calcVars

\* the store applies the upsert and the handler answers
UpsertDone(r) ==
  /\ pc[r] = "upsert"
  /\ store' = UpsertRows(store, rows[r])
  /\ applied' = Append(applied, r)
  /\ Respond(r, "200 Success")
  /\ UNCHANGED <<userId, summary, metric, d, count, rows, before, own>>
  /\ UNCHANGED calcVars

\* the store reports an error: nothing is written
UpsertError(r) ==
  /\ pc[r] = "upsert"
  /\ Respond(r, "500 error.message")
  /\ UNCHANGED <<userId, summary, metric, d, count, rows, store, applied,
                 before, own>>
  /\ UNCHANGED calcVars

\* one request, any batch
Next ==
  \/ \E uid \in UidInputs, user_id \in UserIdInputs, hasMetrics \in BOOLEAN :
       Receive(1, uid, user_id, hasMetrics)
  \/ \E p \in Points : ProcessDataPoint(1, p)
  \/ \E m \in NameInputs : EmptyMetric(1, m)
  \/ BuildRows(1)
  \/ UpsertDone(1)
  \/ UpsertError(1)

Spec == Init /\ [][Next]_vars

\* two requests of the same user, in any interleaving
NextConc ==
  \E r \in Requests :
    \/ Receive(r, Str(<<"u","1">>), Undef, TRUE)
    \/ \E p \in ConcPoints : ProcessDataPoint(r, p)
    \/ BuildRows(r)
    \/ UpsertDone(r)
    \/ UpsertError(r)

SpecConc == Init /\ [][NextConc]_vars

\* ------------------------------------------------------------------------
\* Properties
\* ------------------------------------------------------------------------
PointInTimeFields ==
  {"resting_hr", "hrv", "weight", "body_fat_percentage", "glucose",
   "systolic", "diastolic"}
SummedFields == {"steps", "active_calories", "basal_calories"}
SleepFields ==
  {"sleep_duration_minutes", "sleep_deep_minutes", "sleep_rem_minutes",
   "sleep_core_minutes", "sleep_awake_minutes"}
AccumulatingFields == SummedFields \cup SleepFields
NumericFields == PointInTimeFields \cup AccumulatingFields

\* request r has just taken a data point through the loop body: d[r] is
\* the data point, before[r] the aggregator it found
AfterPoint(r) == pc[r] = "loop" /\ count[r] >= 1
NameOf(r) == MetricName(metric[r])
IsSleepName(name) == includes(name, sleep_analysis)

\* the day of the data point, and the record of a day before and after
DayOf(r) == ResolveDay(DateStrOf(d[r]))
Days(sm) == {sm[i].date : i \in 1..Len(sm)}
RowBefore(r, day) ==
  IF HasDay(before[r], day) THEN before[r][DayIndex(before[r], day)]
  ELSE NewDaySummary(userId[r], day)
RowAfter(r, day) == summary[r][DayIndex(summary[r], day)]

\* the kinds of a name under the Metric Classifier: the kind of every
\* known token the lower-cased name contains
TokenKind ==
  <<"resting_hr", "hrv", "hrv", "steps", "sleep", "active_calories",
    "active_calories", "basal_calories", "weight", "weight",
    "body_fat_percentage", "glucose", "systolic", "diastolic">>
ClassifierKinds(name) ==
  {TokenKind[k] : k \in {j \in 1..Len(knownNames) : includes(name, knownNames[j])}}

\* the kinds the handler maps a name to: the fields a value of that name
\* changes, and sleep for the sleep branch
HandlerKinds(name) ==
  IF IsSleepName(name) THEN {"sleep"}
  ELSE LET fresh == NewDaySummary(Str(<<>>), <<>>)
       IN {f \in NumericFields : MetricRow(fresh, name, Whole(1))[f] # fresh[f]}

\* value extraction as specified: the first of qty, avg, value, min, max
\* that is numeric, a number or the text of one
ValueFields == <<"qty", "avg", "value", "min", "max">>
IsNumeric(v) ==
  \/ v.t = "num"
  \/ v.t = "str" /\ trim(v.s) # <<>> /\ AllDigits(trim(v.s))
HasNumericValue(dp) == \E i \in 1..5 : IsNumeric(dp[ValueFields[i]])
FirstNumericValue(dp) ==
  Number(dp[ValueFields[CHOOSE i \in 1..5 :
              /\ IsNumeric(dp[ValueFields[i]])
              /\ \A j \in 1..(i - 1) : ~IsNumeric(dp[ValueFields[j]])]])

\* the data point counts for field f of day: the handler maps its name to
\* the field, its date resolves to the day and it has a numeric value
CountsFor(r, f, day) ==
  /\ ~IsSleepName(NameOf(r))
  /\ f \in HandlerKinds(NameOf(r))
  /\ HasNumericValue(d[r])
  /\ DayOf(r).ok /\ DayOf(r).day = day

\* C1: every numeric field of every record handed to the upsert is null or
\* a finite number, whatever the batch; no field is NaN.
C1_NumericFieldsNullOrFinite ==
  \A r \in Requests :
    pc[r] = "upsert" =>
      \A i \in 1..Len(rows[r]) : \A f \in NumericFields :
        rows[r][i][f].t \in {"null", "num"}

\* C2: the rows handed to the upsert hold at most one record per
\* (user_id, date), each with a user_id and a date of the form YYYY-MM-DD,
\* and a data point that was not skipped changed the record of its
\* resolved day and no other.
C2_OneRecordPerDayInYmdForm ==
  \A r \in Requests :
    /\ pc[r] = "upsert" =>
         /\ \A i, j \in 1..Len(rows[r]) :
              SameKey(rows[r][i], rows[r][j]) => i = j
         /\ \A i \in 1..Len(rows[r]) :
              /\ Truthy(rows[r][i].user_id)
              /\ IsYmd(rows[r][i].date)
    /\ AfterPoint(r) =>
         \A i \in 1..Len(summary[r]) :
           (i > Len(before[r]) \/ summary[r][i] # before[r][i]) =>
             DayOf(r).ok /\ summary[r][i].date = DayOf(r).day

\* C3: no accumulating field of a record handed to the upsert is negative.
C3_AccumulatingFieldsNonNegative ==
  \A r \in Requests :
    pc[r] = "upsert" =>
      \A i \in 1..Len(rows[r]) : \A f \in AccumulatingFields :
        rows[r][i][f].t = "num" /\ rows[r][i][f].n >= 0

\* C4: a point-in-time field holds the extracted value of the last sample
\* of its kind and date, and null when there was none.  Step by step: a
\* data point that counts for the field sets it to its extracted value,
\* any other data point leaves it as it was, and a new record starts null.
C4_PointInTimeLastWins ==
  \A r \in Requests :
    AfterPoint(r) =>
      \A day \in Days(summary[r]) : \A f \in PointInTimeFields :
        RowAfter(r, day)[f] =
          IF CountsFor(r, f, day) THEN FirstNumericValue(d[r])
          ELSE RowBefore(r, day)[f]

\* C5: a summed field is the sum of the extracted values of the samples of
\* its kind and date, rounded once when the record is finalized, and 0
\* with no such sample.  Step by step: a data point that counts for the
\* field adds its extracted value, any other leaves the field as it was,
\* and the finalized field is the sum rounded.
C5_SummedFieldsAddUp ==
  \A r \in Requests :
    /\ AfterPoint(r) =>
         \A day \in Days(summary[r]) : \A f \in SummedFields :
           RowAfter(r, day)[f] =
             IF CountsFor(r, f, day)
               THEN Num(RowBefore(r, day)[f].n + FirstNumericValue(d[r]).n)
               ELSE RowBefore(r, day)[f]
    /\ pc[r] = "upsert" =>
         \A i \in 1..Len(rows[r]) : \A f \in SummedFields :
           /\ summary[r][i][f].t = "num"
           /\ rows[r][i][f] =
                Num(((2 * summary[r][i][f].n + Scale) \div (2 * Scale)) * Scale)

\* C6: the value extracted from a non-sleep sample is the first of qty,
\* avg, value, min, max that is present and numeric; a field that is not
\* numeric is passed over, and with no numeric value in the five fields
\* the sample is skipped.
C6_FirstNumericValueWins ==
  \A r \in Requests :
    (AfterPoint(r) /\ ~IsSleepName(NameOf(r)) /\ DayOf(r).ok) =>
      IF HasNumericValue(d[r])
        THEN Number(ValueOf(d[r])) = FirstNumericValue(d[r])
        ELSE /\ IsNullish(ValueOf(d[r]))
             /\ \A day \in Days(before[r]) : RowAfter(r, day) = RowBefore(r, day)

\* C7: the classifier matches by case-insensitive containment: a name
\* containing a known token is mapped as the kind of that token, any casing
\* of HeartRateVariabilitySDNN is mapped as HRV, and a name with no known
\* token is mapped to nothing while the loop goes on.
C7_ClassifierByContainment ==
  \A r \in Requests :
    (AfterPoint(r) /\ metric[r].t = "str") =>
      /\ ClassifierKinds(NameOf(r)) \subseteq HandlerKinds(NameOf(r))
      /\ toLowerCase(metric[r].s) = <<"h","e","a","r","t","r","a","t","e","v","a","r","i","a","b","i","l","i","t","y","s","d","n","n">> =>
           "hrv" \in HandlerKinds(NameOf(r))
      /\ ClassifierKinds(NameOf(r)) = {} =>
           /\ ~isKnown(NameOf(r))
           /\ \A day \in Days(before[r]) : RowAfter(r, day) = RowBefore(r, day)

\* the stage bucket of a stage marker as specified: 0 or "awake" is awake,
\* 1, 2, "asleep" or "core" is core, 3 or "Deep" is deep, 4 or "REM" is rem
SpecifiedBucket(stage) ==
  CASE stage = Whole(0) \/ stage = Str(<<"a","w","a","k","e">>) -> "sleep_awake_minutes"
    [] stage \in {Whole(1), Whole(2), Str(<<"a","s","l","e","e","p">>), Str(<<"c","o","r","e">>)} ->
         "sleep_core_minutes"
    [] stage = Whole(3) \/ stage = Str(<<"D","e","e","p">>) -> "sleep_deep_minutes"
    [] stage = Whole(4) \/ stage = Str(<<"R","E","M">>) -> "sleep_rem_minutes"
    [] OTHER -> "none"

\* a valid sleep segment: no hour total, a start and an end that parse, a
\* positive duration and a stage marker of the mapping
SegmentStart(dp) == NewDate(Or(dp.start, dp.startDate))
SegmentEnd(dp) == NewDate(Or(dp.end, dp.endDate))
IsSummaryShape(dp) ==
  \E f \in {"totalSleep", "deep", "rem", "core", "awake"} : dp[f].t = "num"
IsValidSegment(dp) ==
  /\ ~IsSummaryShape(dp)
  /\ SegmentStart(dp).ok /\ SegmentEnd(dp).ok
  /\ MinutesBetween(SegmentStart(dp), SegmentEnd(dp)).n > 0
  /\ SpecifiedBucket(dp.value) # "none"

\* C8: a valid sleep segment adds its minutes to the total sleep of its
\* day and to exactly one stage bucket, the one of the specified mapping.
C8_SegmentAddsToTotalAndOneBucket ==
  \A r \in Requests :
    (AfterPoint(r) /\ IsSleepName(NameOf(r)) /\ IsValidSegment(d[r])
       /\ DayOf(r).ok) =>
      LET minutes == MinutesBetween(SegmentStart(d[r]), SegmentEnd(d[r])).n
          was == RowBefore(r, DayOf(r).day)
          now == RowAfter(r, DayOf(r).day)
      IN \A f \in SleepFields :
           now[f] =
             IF f \in {"sleep_duration_minutes", SpecifiedBucket(d[r].value)}
               THEN Num(was[f].n + minutes)
               ELSE was[f]

\* hours to minutes as specified: times 60, rounded to the nearest minute;
\* an hour total that is absent or not a number counts as 0
SpecifiedMinutes(h) ==
  IF h.t = "num"
    THEN Num(((2 * 60 * h.n + Scale) \div (2 * Scale)) * Scale)
    ELSE Whole(0)

\* C9: a summary-shape sleep sample replaces the sleep totals of its day:
\* after it the five sleep fields are the summary's hour totals times 60,
\* rounded to the minute, whatever the segments before it added.
C9_SummaryReplacesSleepTotals ==
  \A r \in Requests :
    (AfterPoint(r) /\ IsSleepName(NameOf(r)) /\ IsSummaryShape(d[r])
       /\ DayOf(r).ok) =>
      LET now == RowAfter(r, DayOf(r).day)
      IN /\ now.sleep_duration_minutes = SpecifiedMinutes(d[r].totalSleep)
         /\ now.sleep_deep_minutes = SpecifiedMinutes(d[r].deep)
         /\ now.sleep_rem_minutes = SpecifiedMinutes(d[r].rem)
         /\ now.sleep_core_minutes = SpecifiedMinutes(d[r].core)
         /\ now.sleep_awake_minutes = SpecifiedMinutes(d[r].awake)

\* a summary with totalSleep = 7.5 and no other total came after a segment
\* that had added 60 deep minutes to the day: 450 total minutes are left
\* and no deep minute
C9_Witness ==
  \E r \in Requests :
    /\ AfterPoint(r) /\ IsSleepName(NameOf(r)) /\ DayOf(r).ok
    /\ d[r].totalSleep = Num(60) /\ d[r].deep = Undef
    /\ HasDay(before[r], DayOf(r).day)
    /\ RowBefore(r, DayOf(r).day).sleep_duration_minutes = Whole(60)
    /\ RowBefore(r, DayOf(r).day).sleep_deep_minutes = Whole(60)
    /\ RowAfter(r, DayOf(r).day).sleep_duration_minutes = Whole(450)
    /\ RowAfter(r, DayOf(r).day).sleep_deep_minutes = Whole(0)

\* the rows of the batch of request r built on its own
OwnRows(r) == SanitizeRows(own[r])
HasKey(rws, s) == \E i \in 1..Len(rws) : SameKey(rws[i], s)
RowOfKey(rws, s) == rws[CHOOSE i \in 1..Len(rws) : SameKey(rws[i], s)]
\* the positions in the order of application of the upserts that wrote
\* the key of s, and the request of the last of them
Writers(s) == {i \in 1..Len(applied) : HasKey(rows[applied[i]], s)}
LastWriter(s) ==
  applied[CHOOSE i \in Writers(s) : \A j \in Writers(s) : j <= i]

\* C10: in every interleaving of two requests the row stored for a key is
\* the complete record that one batch built on its own, the batch whose
\* upsert was applied last, never a mixture of two batches.
C10_StoredRowIsOneBatchsRecord ==
  /\ \A s \in store :
       /\ Writers(s) # {}
       /\ HasKey(OwnRows(LastWriter(s)), s)
       /\ s = RowOfKey(OwnRows(LastWriter(s)), s)
  /\ \A i \in 1..Len(applied) : \A j \in 1..Len(rows[applied[i]]) :
       \E s \in store : SameKey(s, rows[applied[i]][j])

\* both requests wrote the same key with different records, request 2
\* last, and the stored row is the record of request 2
C10_Witness ==
  /\ applied = <<1, 2>>
  /\ \E s \in store :
       /\ HasKey(rows[1], s) /\ HasKey(rows[2], s)
       /\ RowOfKey(rows[1], s) # RowOfKey(rows[2], s)
       /\ s = RowOfKey(rows[2], s)
       /\ s.steps = Whole(0) /\ RowOfKey(rows[1], s).steps = Whole(60)

\* ------------------------------------------------------------------------
\* api/readinessCalc.js: computeReadiness, one day's row -> readiness
\* ------------------------------------------------------------------------
sleepTargetMinutes == 480
hrvGoodMs == 60
hrvLowMs == 20
restingHrGood == 55
restingHrHigh == 85
subjectiveScore == 50

\* the weights 0.30, 0.25, 0.20, 0.15 and 0.10, in hundredths
weights ==
  [sleep |-> 30, hrv |-> 25, resting_hr |-> 20, recovery |-> 15,
   subjective |-> 10]

\* clamp(n, min, max): min for a value that is not finite
clamp(n, min, max) ==
  IF n.t # "num" \/ n.n < min * Scale THEN Whole(min)
  ELSE IF n.n > max * Scale THEN Whole(max)
  ELSE n

\* toNum(v): Number(v) when it is finite, null otherwise
toNum(v) == IF Number(v).t = "num" THEN Number(v) ELSE Null

\* Math.round(p / q) for q > 0
RoundRatio(p, q) == Whole((2 * p + q) \div (2 * q))

\* x / y > pct / 100 and x / y < pct / 100, as JavaScript divides: x / 0 is
\* Infinity, -Infinity or NaN
RatioAbove(x, y, pct) ==
  IF y > 0 THEN 100 * x > pct * y
  ELSE IF y < 0 THEN 100 * x < pct * y
  ELSE x > 0
RatioBelow(x, y, pct) ==
  IF y > 0 THEN 100 * x < pct * y
  ELSE IF y < 0 THEN 100 * x > pct * y
  ELSE x < 0

\* no row at all, and nothing reported missing
NoDayRowNothingMissing ==
  [date |-> Null, total |-> Null, status |-> "awaiting_sync",
   message |-> <<"Awaiting sync">>, subscores |-> <<>>, weights |-> <<>>,
   used |-> <<>>, missing |-> <<>>,
   recommendation |-> "", tips |-> <<"No daily row found for this date.">>]

\* the object returned for no row at all
NoDayRow ==
  [date |-> Null, total |-> Null, status |-> "awaiting_sync",
   message |-> <<"Awaiting sync">>, subscores |-> <<>>, weights |-> <<>>,
   used |-> <<>>,
   missing |-> <<"sleep", "hrv", "resting_hr", "steps", "active_calories">>,
   recommendation |-> "", tips |-> <<"No daily row found for this date.">>]

\* the numbers extracted from the row
Used(row) ==
  [sleep_minutes |-> toNum(row.sleep_duration_minutes),
   deep_minutes |-> toNum(row.sleep_deep_minutes),
   rem_minutes |-> toNum(row.sleep_rem_minutes),
   core_minutes |-> toNum(row.sleep_core_minutes),
   awake_minutes |-> toNum(row.sleep_awake_minutes),
   hrv_ms |-> toNum(row.hrv),
   resting_hr_bpm |-> toNum(row.resting_hr),
   steps |-> toNum(row.steps),
   active_calories |-> toNum(row.active_calories)]

\* x && x > 0
Positive(x) == Truthy(x) /\ x.n > 0

If(cond, items) == IF cond THEN items ELSE <<>>

\* missing detection
MissingOf(u) ==
  If(~Positive(u.sleep_minutes), <<"sleep">>)
    \o If(~Truthy(u.hrv_ms), <<"hrv">>)
    \o If(~Truthy(u.resting_hr_bpm), <<"resting_hr">>)
    \o If(u.steps.t # "num", <<"steps">>)
    \o If(u.active_calories.t # "num", <<"active_calories">>)

hasStages(u) ==
  \/ Positive(u.deep_minutes)
  \/ Positive(u.rem_minutes)
  \/ Positive(u.core_minutes)
  \/ Positive(u.awake_minutes)

\* the bands with a zero deep or rem fraction counted as below its band
stageAdjZeroBelow(sleep, deep, rem, awake) ==
  (IF RatioBelow(deep, sleep, 8) THEN 0 - 5 ELSE 0)
  + (IF RatioAbove(deep, sleep, 30) THEN 0 - 3 ELSE 0)
  + (IF RatioBelow(rem, sleep, 12) THEN 0 - 4 ELSE 0)
  + (IF awake # 0 /\ RatioAbove(awake, sleep + awake, 12)
       THEN 0 - 5 ELSE 0)

\* deepPct, remPct: min ? min / sleepMinutes : 0, compared with the bands
stageAdj(sleep, deep, rem, awake) ==
  (IF RatioAbove(deep, sleep, 0) /\ RatioBelow(deep, sleep, 8)
     THEN 0 - 5 ELSE 0)
  + (IF RatioAbove(deep, sleep, 30) THEN 0 - 3 ELSE 0)
  + (IF RatioAbove(rem, sleep, 0) /\ RatioBelow(rem, sleep, 12)
       THEN 0 - 4 ELSE 0)
  + (IF awake # 0 /\ RatioAbove(awake, sleep + awake, 12)
       THEN 0 - 5 ELSE 0)

\* Subscore: Sleep
SleepRatioScore(u) ==
  clamp(RoundRatio(u.sleep_minutes.n * 100, sleepTargetMinutes * Scale),
        0, 100)
sleepScore(u) ==
  IF ~Positive(u.sleep_minutes) THEN Null
  ELSE IF ~hasStages(u) THEN SleepRatioScore(u)
  ELSE clamp(Num(SleepRatioScore(u).n
                   + Scale * stageAdj(u.sleep_minutes.n, u.deep_minutes.n,
                                      u.rem_minutes.n, u.awake_minutes.n)),
             0, 100)

\* Subscore: HRV
hrvScore(u) ==
  IF ~Truthy(u.hrv_ms) THEN Null
  ELSE clamp(RoundRatio((u.hrv_ms.n - hrvLowMs * Scale) * 100,
                        (hrvGoodMs - hrvLowMs) * Scale), 0, 100)

\* Subscore: Resting HR
rhrScore(u) ==
  IF ~Truthy(u.resting_hr_bpm) THEN Null
  ELSE clamp(RoundRatio((restingHrHigh * Scale - u.resting_hr_bpm.n) * 100,
                        (restingHrHigh - restingHrGood) * Scale), 0, 100)

\* Subscore: Recovery proxy.  load = s / 8000 + c / 500 = (s + 16 c) / 8000
Abs(i) == IF i < 0 THEN 0 - i ELSE i
Load(u) == u.steps.n + 16 * u.active_calories.n
\* the score only of a day with both steps and active calories
recoveryScoreOfBoth(u) ==
  IF u.steps.t # "num" \/ u.active_calories.t # "num" THEN Null
  ELSE clamp(RoundRatio(100 * 8000 * Scale
                          - 50 * Abs(Load(u) - 8000 * Scale),
                        8000 * Scale), 0, 100)
recoveryScore(u) ==
  IF u.steps.t # "num" /\ u.active_calories.t # "num" THEN Null
  ELSE clamp(RoundRatio(100 * 8000 * Scale
                          - 50 * Abs(Load(u) - 8000 * Scale),
                        8000 * Scale), 0, 100)

subscoresOf(u) ==
  [sleep |-> sleepScore(u), hrv |-> hrvScore(u), resting_hr |-> rhrScore(u),
   recovery |-> recoveryScore(u), subjective |-> Whole(subjectiveScore)]

\* one subscore with every weight: the weighted sum over what is there
TotalRenormalized(s) ==
  IF \A k \in {"sleep", "hrv", "resting_hr", "recovery"} : s[k].t = "null"
    THEN Null
  ELSE clamp(RoundRatio(
         (IF s.sleep.t = "null" THEN 0 ELSE s.sleep.n * weights.sleep)
         + (IF s.hrv.t = "null" THEN 0 ELSE s.hrv.n * weights.hrv)
         + (IF s.resting_hr.t = "null" THEN 0
              ELSE s.resting_hr.n * weights.resting_hr)
         + (IF s.recovery.t = "null" THEN 0
              ELSE s.recovery.n * weights.recovery)
         + s.subjective.n * weights.subjective,
         Scale * ((IF s.sleep.t = "null" THEN 0 ELSE weights.sleep)
                  + (IF s.hrv.t = "null" THEN 0 ELSE weights.hrv)
                  + (IF s.resting_hr.t = "null" THEN 0
                       ELSE weights.resting_hr)
                  + (IF s.recovery.t = "null" THEN 0 ELSE weights.recovery)
                  + weights.subjective)), 0, 100)

\* Weighted total: null when a core score is null
Total(s) ==
  IF \E k \in {"sleep", "hrv", "resting_hr", "recovery"} : s[k].t = "null"
    THEN Null
  ELSE clamp(RoundRatio(s.sleep.n * weights.sleep + s.hrv.n * weights.hrv
                          + s.resting_hr.n * weights.resting_hr
                          + s.recovery.n * weights.recovery
                          + s.subjective.n * weights.subjective,
                        100 * Scale), 0, 100)

\* Recommendation text (the first sentence of each)
Recommendation(total) ==
  IF total.t = "null" THEN "Awaiting sync"
  ELSE IF total.n >= 85 * Scale THEN "Readiness is high."
  ELSE IF total.n >= 70 * Scale THEN "Readiness is moderate."
  ELSE IF total.n >= 50 * Scale THEN "Readiness is low-moderate."
  ELSE "Readiness is low."

\* tips (the first sentence of each)
Tips(u) ==
  (IF ~Positive(u.sleep_minutes)
     THEN <<"Sleep data not synced for this day.">>
     ELSE If(u.sleep_minutes.n < 6 * 60 * Scale,
             <<"Sleep was under 6 hours.">>))
  \o (IF ~Truthy(u.hrv_ms) THEN <<"HRV data not synced for this day.">>
      ELSE If(u.hrv_ms.n < hrvLowMs * Scale, <<"HRV is low.">>))
  \o (IF ~Truthy(u.resting_hr_bpm)
        THEN <<"Resting HR data not synced for this day.">>
      ELSE If(u.resting_hr_bpm.n >= restingHrHigh * Scale,
              <<"Resting HR is elevated.">>))
  \o (IF u.steps.t # "num" /\ u.active_calories.t # "num"
        THEN <<"Activity data not synced for this day.">>
      ELSE If(Load(u) > 2 * 8000 * Scale, <<"High activity load.">>))

ReadinessOf(date, u, total) ==
  [date |-> date, total |-> total,
   status |-> IF total.t = "null" THEN "awaiting_sync" ELSE "ok",
   message |-> IF total.t = "null" THEN <<"Awaiting sync">>
               ELSE <<total, "/100">>,
   subscores |-> subscoresOf(u), weights |-> weights, used |-> u,
   missing |-> MissingOf(u),
   recommendation |-> Recommendation(total), tips |-> Tips(u)]

computeReadiness(row) ==
  IF row = Null THEN NoDayRow
  ELSE ReadinessOf(row.date, Used(row), Total(subscoresOf(Used(row))))

\* ------------------------------------------------------------------------
\* computeReadiness applied to one row of daily_health_summary, or to none
\* ------------------------------------------------------------------------
SleepPart(total, deep, rem, core, awake) ==
  [sleep_duration_minutes |-> total, sleep_deep_minutes |-> deep,
   sleep_rem_minutes |-> rem, sleep_core_minutes |-> core,
   sleep_awake_minutes |-> awake]

\* the sleep fields of a row: none, without stages, stages inside and
\* outside the bands, a stage of zero minutes, short and long nights
SleepInputs ==
  {SleepPart(Null, Null, Null, Null, Null),
   SleepPart(Undef, Undef, Undef, Undef, Undef),
   SleepPart(Whole(0), Whole(0), Whole(0), Whole(0), Whole(0)),
   SleepPart(Whole(0 - 60), Whole(0), Whole(0), Whole(0), Whole(0)),
   SleepPart(Whole(480), Null, Null, Null, Null),
   SleepPart(Whole(480), Whole(0), Whole(0), Whole(0), Whole(0)),
   SleepPart(Whole(480), Whole(60), Whole(120), Whole(240), Whole(60)),
   SleepPart(Whole(480), Whole(30), Whole(40), Whole(320), Whole(90)),
   SleepPart(Whole(480), Whole(200), Whole(120), Whole(160), Whole(0)),
   SleepPart(Whole(480), Whole(0), Whole(120), Whole(360), Whole(0)),
   SleepPart(Whole(480), Whole(100), Whole(0), Whole(380), Whole(0)),
   SleepPart(Whole(480), Whole(0), Whole(0), Whole(480), Whole(0)),
   SleepPart(Whole(300), Whole(60), Whole(60), Whole(180), Whole(10)),
   SleepPart(Whole(600), Whole(20), Whole(30), Whole(550), Whole(120)),
   SleepPart(Whole(12), Whole(0), Whole(1), Whole(11), Whole(30)),
   SleepPart(Str(<<"4", "5", "0">>), Null, Null, Null, Null)}

HrvInputs == {Null, Undef, Whole(0), Whole(10), Whole(40), Whole(60), Whole(100)}
RestingHrInputs == {Null, Whole(0), Whole(55), Whole(70), Whole(85), Whole(100)}

ActivityPart(steps, active_calories) ==
  [steps |-> steps, active_calories |-> active_calories]
ActivityInputs ==
  {ActivityPart(Undef, Undef), ActivityPart(Null, Null),
   ActivityPart(Whole(0), Whole(0)), ActivityPart(Whole(8000), Whole(500)),
   ActivityPart(Whole(4000), Whole(250)), ActivityPart(Whole(8000), Undef),
   ActivityPart(Undef, Whole(500)), ActivityPart(Whole(20000), Whole(2000))}

DayRow(sleep, hrv, resting_hr, activity) ==
  [date |-> DateOnly,
   sleep_duration_minutes |-> sleep.sleep_duration_minutes,
   sleep_deep_minutes |-> sleep.sleep_deep_minutes,
   sleep_rem_minutes |-> sleep.sleep_rem_minutes,
   sleep_core_minutes |-> sleep.sleep_core_minutes,
   sleep_awake_minutes |-> sleep.sleep_awake_minutes,
   hrv |-> hrv, resting_hr |-> resting_hr,
   steps |-> activity.steps, active_calories |-> activity.active_calories]

DayRowInputs ==
  {DayRow(sleep, hrv, resting_hr, activity) :
     sleep \in SleepInputs, hrv \in HrvInputs,
     resting_hr \in RestingHrInputs, activity \in ActivityInputs}

InitReadiness ==
  /\ IngestIdle
  /\ dayRow \in DayRowInputs \cup {Null}
  /\ readiness = Undef
  /\ weekly = Undef
  /\ report = Undef

\* the readiness of the row is computed
Readiness ==
  /\ readiness = Undef
  /\ readiness' = computeReadiness(dayRow)
  /\ UNCHANGED <<ingestVars, dayRow, weekly, report>>

NextReadiness == Readiness

SpecReadiness == InitReadiness /\ [][NextReadiness]_vars

\* ------------------------------------------------------------------------
\* Claims about computeReadiness
\* ------------------------------------------------------------------------
MeasuredScores == {"sleep", "hrv", "resting_hr", "recovery"}
Scored == readiness # Undef /\ dayRow # Null
IsScore(v) == v.t = "num" /\ v.n % Scale = 0 /\ v.n >= 0 /\ v.n <= 100 * Scale
Names(list) == {list[i] : i \in 1..Len(list)}

\* C11 (as stated): for a null record computeReadiness returns status
\* awaiting_sync, total null and a missing list naming the five subscore
\* categories sleep, hrv, resting_hr, recovery, subjective.
C11_NullRecordMissesSubscores ==
  (readiness # Undef /\ dayRow = Null) =>
    /\ readiness.status = "awaiting_sync"
    /\ readiness.total = Null
    /\ Names(readiness.missing)
         = {"sleep", "hrv", "resting_hr", "recovery", "subjective"}

\* C11 (amended): for a null record computeReadiness returns status
\* awaiting_sync, total null and a missing list of five entries naming the
\* inputs sleep, hrv, resting_hr, steps and active_calories.
C11_NullRecordMissesInputs ==
  (readiness # Undef /\ dayRow = Null) =>
    /\ readiness.status = "awaiting_sync"
    /\ readiness.total = Null
    /\ Len(readiness.missing) = 5
    /\ Names(readiness.missing)
         = {"sleep", "hrv", "resting_hr", "steps", "active_calories"}

C11_Witness == readiness # Undef /\ dayRow = Null

\* the claimed total: the fixed weights over the five subscores, rounded
\* to the nearest integer and clamped to 0..100
WeightedSum(s) ==
  30 * (s.sleep.n \div Scale) + 25 * (s.hrv.n \div Scale)
    + 20 * (s.resting_hr.n \div Scale) + 15 * (s.recovery.n \div Scale)
    + 10 * (s.subjective.n \div Scale)
ClaimedTotal(s) ==
  LET rounded == (2 * WeightedSum(s) + 100) \div 200
  IN IF rounded < 0 THEN 0 ELSE IF rounded > 100 THEN 100 ELSE rounded

IsExampleRow ==
  /\ dayRow.sleep_duration_minutes = Whole(480)
  /\ dayRow.hrv = Whole(60)
  /\ dayRow.resting_hr = Whole(55)
  /\ dayRow.steps = Whole(8000)
  /\ dayRow.active_calories = Whole(500)

\* C13: for a record with sleep_duration_minutes = 480, hrv = 60,
\* resting_hr = 55, steps = 8000 and active_calories = 500 (and no stage
\* minutes), computeReadiness returns total >= 90, status ok and an empty
\* missing list.
C13_ExampleScoresAtLeast90 ==
  (Scored /\ IsExampleRow /\ dayRow.sleep_deep_minutes = Null) =>
    /\ readiness.total.t = "num"
    /\ readiness.total.n >= 90 * Scale
    /\ readiness.status = "ok"
    /\ readiness.missing = <<>>

\* an input is absent: the field is null or undefined or holds no number;
\* for sleep minutes, HRV and resting HR a value that is not positive is
\* no reading either
NoNumber(v) == IsNullish(v) \/ Number(v).t # "num"
NoReading(v) == NoNumber(v) \/ Number(v).n <= 0
InputMissing(k) ==
  CASE k = "sleep" -> NoReading(dayRow.sleep_duration_minutes)
    [] k = "hrv" -> NoReading(dayRow.hrv)
    [] k = "resting_hr" -> NoReading(dayRow.resting_hr)
    [] k = "recovery" ->
         NoNumber(dayRow.steps) /\ NoNumber(dayRow.active_calories)

\* C14: for every day record, each of the four measured subscores is an
\* integer in 0..100, or null exactly when its required input is missing;
\* the subjective subscore is always 50; total is null or an integer in
\* 0..100.
C14_SubscoresInRangeOrMissing ==
  Scored =>
    /\ \A k \in MeasuredScores :
         IF InputMissing(k) THEN readiness.subscores[k] = Null
         ELSE IsScore(readiness.subscores[k])
    /\ readiness.subscores.subjective = Whole(50)
    /\ readiness.total = Null \/ IsScore(readiness.total)

\* the fractions of the night, over the numbers of the row
SleepOf == Number(dayRow.sleep_duration_minutes).n
DeepOf == Number(dayRow.sleep_deep_minutes).n
RemOf == Number(dayRow.sleep_rem_minutes).n
AwakeOf == Number(dayRow.sleep_awake_minutes).n
CoreOf == Number(dayRow.sleep_core_minutes).n
RatioScore ==
  LET rounded == (2 * 100 * SleepOf + sleepTargetMinutes * Scale)
                   \div (2 * sleepTargetMinutes * Scale)
  IN IF rounded > 100 THEN 100 ELSE rounded
Clamped(i) == IF i < 0 THEN 0 ELSE IF i > 100 THEN 100 ELSE i
DeepAbove30 == 100 * DeepOf > 30 * SleepOf
AwakeAbove12 == 100 * AwakeOf > 12 * (SleepOf + AwakeOf)

\* C15 (as stated): the sleep subscore is clamp(round(minutes / target
\* * 100), 0, 100) less one fixed penalty for each of: deep fraction below
\* 8%, deep fraction above 30%, rem fraction below 12%, awake fraction
\* above 12%, a zero deep or rem fraction counting as below its band,
\* re-clamped to 0..100.
C15_ZeroFractionPenalised ==
  (Scored /\ SleepOf > 0) =>
    readiness.subscores.sleep =
      Whole(Clamped(RatioScore
        - (IF 100 * DeepOf < 8 * SleepOf THEN 5 ELSE 0)
        - (IF DeepAbove30 THEN 3 ELSE 0)
        - (IF 100 * RemOf < 12 * SleepOf THEN 4 ELSE 0)
        - (IF AwakeAbove12 THEN 5 ELSE 0)))

\* C15 (amended): when a stage has positive minutes, the sleep subscore is
\* clamp(round(minutes / target * 100), 0, 100) less 5 for a deep fraction
\* above zero and below 8%, 3 for a deep fraction above 30%, 4 for a rem
\* fraction above zero and below 12% and 5 for awake / (sleep + awake)
\* above 12%, re-clamped to 0..100; a deep or rem fraction of zero is not
\* penalised, and without stage minutes the subscore is the clamped ratio.
C15_PenaltyBandsAboveZero ==
  (Scored /\ SleepOf > 0) =>
    readiness.subscores.sleep =
      IF DeepOf <= 0 /\ RemOf <= 0 /\ CoreOf <= 0 /\ AwakeOf <= 0
        THEN Whole(RatioScore)
      ELSE Whole(Clamped(RatioScore
        - (IF DeepOf > 0 /\ 100 * DeepOf < 8 * SleepOf THEN 5 ELSE 0)
        - (IF DeepAbove30 THEN 3 ELSE 0)
        - (IF RemOf > 0 /\ 100 * RemOf < 12 * SleepOf THEN 4 ELSE 0)
        - (IF AwakeAbove12 THEN 5 ELSE 0)))

C15_Witness ==
  /\ Scored
  /\ dayRow.sleep_duration_minutes = Whole(480)
  /\ dayRow.sleep_deep_minutes = Whole(30)
  /\ dayRow.sleep_rem_minutes = Whole(40)
  /\ dayRow.sleep_awake_minutes = Whole(90)
  /\ readiness.subscores.sleep = Whole(86)

\* ------------------------------------------------------------------------
\* api/weeklyReportCalc.js: numbers.  An average is a quotient of integers:
\* the record [p, q] stands for p / q, q > 0, in lowest terms.
\* ------------------------------------------------------------------------
RECURSIVE Gcd(_, _)
Gcd(a, b) == IF b = 0 THEN a ELSE Gcd(b, a % b)
Rat(p, q) ==
  IF q < 0 THEN [p |-> (0 - p) \div Gcd(Abs(p), Abs(q)),
                 q |-> (0 - q) \div Gcd(Abs(p), Abs(q))]
  ELSE [p |-> p \div Gcd(Abs(p), q), q |-> q \div Gcd(Abs(p), q)]
Less(x, y) == x.p * y.q < y.p * x.q
Minus(x, y) == Rat(x.p * y.q - y.p * x.q, x.q * y.q)
RatAbs(x) == [p |-> Abs(x.p), q |-> x.q]
Of(i) == [p |-> i, q |-> 1]

RECURSIVE SumOf(_)
SumOf(nums) == IF nums = <<>> THEN 0 ELSE Head(nums) + SumOf(Tail(nums))

\* avg(arr): null for no numbers, the sum over the count otherwise (the
\* numbers are the n of fixed-point values)
avg(nums) ==
  IF nums = <<>> THEN Null ELSE Rat(SumOf(nums), Len(nums) * Scale)

\* pctChange(current, prev): ((current - prev) / prev) * 100
pctChange(current, prev) ==
  IF current = Null \/ prev = Null \/ prev.p = 0 THEN Null
  ELSE Rat((current.p * prev.q - prev.p * current.q) * 100,
           prev.p * current.q)

\* Math.round(x): whole + round(rest / q), a tie going up
RoundRat(x) == (x.p \div x.q) + (2 * (x.p % x.q) + x.q) \div (2 * x.q)

RECURSIVE Power10(_)
Power10(digits) == IF digits = 0 THEN 1 ELSE 10 * Power10(digits - 1)

\* round(n, digits): Math.round(n * 10^digits) / 10^digits; the fraction
\* rest / q is scaled one decimal at a time
RECURSIVE ScaledFraction(_, _, _, _)
ScaledFraction(acc, rest, q, digits) ==
  IF digits = 0 THEN acc + (IF 2 * rest >= q THEN 1 ELSE 0)
  ELSE ScaledFraction(acc * 10 + (rest * 10) \div q, (rest * 10) % q, q,
                      digits - 1)
round(x, digits) ==
  Rat((x.p \div x.q) * Power10(digits)
        + ScaledFraction(0, x.p % x.q, x.q, digits),
      Power10(digits))
RoundOrNull(x, digits) == IF x = Null THEN Null ELSE round(x, digits)

\* `${n}` for a number with at most one decimal
IntToString(i) == IF i < 0 THEN <<"-">> \o DecChars(0 - i) ELSE DecChars(i)
Tenths(x) == Abs(x.p) * (10 \div x.q)
RatToString(x) ==
  IF x.q = 1 THEN IntToString(x.p)
  ELSE (IF x.p < 0 THEN <<"-">> ELSE <<>>)
         \o DecChars(Tenths(x) \div 10) \o <<".">> \o DecChars(Tenths(x) % 10)

\* minutesToHhMm(min)
HhMm(m) == DecChars(m \div 60) \o <<"h"," ">> \o Pad(m % 60, 2) \o <<"m">>
minutesToHhMm(min) ==
  HhMm(IF min = Null \/ RoundRat(min) < 0 THEN 0 ELSE RoundRat(min))

\* ------------------------------------------------------------------------
\* dates
\* ------------------------------------------------------------------------
isValidYmd(s) == s.t = "str" /\ IsYmd(s.s)

\* toDateUTC(ymd): Date.UTC(y, m - 1, d) carries a month or a day out of
\* range over, and takes a year 0..99 as 1900..1999
UtcYear(y) == IF y <= 99 THEN 1900 + y ELSE y
DateUTC(y, m, dd) ==
  DaysFromCivil(UtcYear(y) + (m - 1) \div 12, ((m - 1) % 12) + 1, 1) + dd - 1
toDateUTC(ymd) ==
  DateUTC(DecVal(SubSeq(ymd, 1, 4)), DecVal(SubSeq(ymd, 6, 7)),
          DecVal(SubSeq(ymd, 9, 10)))

\* formatYmdUTC(dt): the year is not padded
YmdOf(c) == DecChars(c.y) \o <<"-">> \o Pad(c.m, 2) \o <<"-">> \o Pad(c.d, 2)
formatYmdUTC(days) == YmdOf(CivilFromDays(days))
addDaysUTC(ymd, delta) == formatYmdUTC(toDateUTC(ymd) + delta)

\* a < b on strings: by the first code unit that differs
CodeOrder == <<" ","+","-","0","1","2","3","4","5","6","7","8","9",":","T","Z">>
CodeOf(c) == CHOOSE i \in 1..Len(CodeOrder) : CodeOrder[i] = c
RECURSIVE StrLess(_, _)
StrLess(a, b) ==
  IF b = <<>> THEN FALSE
  ELSE IF a = <<>> THEN TRUE
  ELSE IF Head(a) # Head(b) THEN CodeOf(Head(a)) < CodeOf(Head(b))
  ELSE StrLess(Tail(a), Tail(b))

\* ------------------------------------------------------------------------
\* api/weeklyReportCalc.js: buildWeeklyReport({uid, end, goalSleepMinutes,
\* dailyRows, prevDailyRows})
\* ------------------------------------------------------------------------
\* a row of the current window: dated, within [weekStart, weekEnd]
InWeek(r, weekStart, weekEnd) ==
  /\ r # Null
  /\ Truthy(r.date)
  /\ ~StrLess(r.date.s, weekStart)
  /\ ~StrLess(weekEnd, r.date.s)

\* Number.isFinite(x) && x > 0
FinitePositive(x) == x.t = "num" /\ x.n > 0

\* the positive numbers among Val(r), r in rws
PositiveNumbers(rws, Val(_)) ==
  LET kept == SelectSeq(rws, LAMBDA r : FinitePositive(Val(r)))
  IN [i \in 1..Len(kept) |-> Val(kept[i]).n]

SleepOrZero(r) == Number(Or(r.sleep_duration_minutes, Whole(0)))
SleepNumber(r) ==
  IF r = Null THEN NaN ELSE Number(r.sleep_duration_minutes)
HrvNumber(r) == Number(r.hrv)
RhrNumber(r) == Number(r.resting_hr)

\* Current window aggregation
CurrentWindow(inWeek) ==
  [days_count |-> Len(inWeek),
   sleepMins |-> PositiveNumbers(inWeek, SleepOrZero),
   hrvVals |-> PositiveNumbers(inWeek, HrvNumber),
   rhrVals |-> PositiveNumbers(inWeek, RhrNumber)]

\* avgSleep, avgHrv, avgRhr and the previous window's prevSleep, prevHrv,
\* prevRhr
Averages(cur, prevDailyRows) ==
  [sleep |-> avg(cur.sleepMins), hrv |-> avg(cur.hrvVals),
   rhr |-> avg(cur.rhrVals),
   prevSleep |-> avg(PositiveNumbers(prevDailyRows, SleepNumber)),
   prevHrv |-> avg(PositiveNumbers(prevDailyRows, HrvNumber)),
   prevRhr |-> avg(PositiveNumbers(prevDailyRows, RhrNumber))]

\* sleepChangePct, hrvChangePct, restingHrChangeBpm
Changes(a) ==
  [sleep |-> pctChange(a.sleep, a.prevSleep),
   hrv |-> pctChange(a.hrv, a.prevHrv),
   rhr |-> IF a.rhr # Null /\ a.prevRhr # Null
             THEN Minus(a.rhr, a.prevRhr) ELSE Null]

\* the character U+2014
EmDash == <<"EM DASH">>

SleepLine(avgSleep, goal) ==
  IF avgSleep = Null THEN <<"A","v","e","r","a","g","e"," ","s","l","e","e","p",":"," ","A","w","a","i","t","i","n","g"," ","s","y","n","c">>
  ELSE <<"A","v","e","r","a","g","e"," ","s","l","e","e","p",":"," ">> \o minutesToHhMm(avgSleep) \o <<" ","(">>
         \o (IF RoundRat(Minus(avgSleep, goal)) >= 0
               THEN <<"o","n"," ","t","a","r","g","e","t">> ELSE <<"b","e","l","o","w"," ","t","a","r","g","e","t">>)
         \o <<" ","(","g","o","a","l"," ">> \o minutesToHhMm(goal) \o <<")",")">>

\* the HRV line with the change printed without its sign
HrvLineUnsigned(avgHrv, change) ==
  IF avgHrv = Null THEN <<"H","R","V",":"," ","A","w","a","i","t","i","n","g"," ","s","y","n","c">>
  ELSE IF change = Null THEN <<"H","R","V"," ","s","t","a","b","l","e"," ","b","y"," ">> \o EmDash
  ELSE <<"H","R","V"," ">> \o (IF change.p >= 0 THEN <<"u","p">> ELSE <<"d","o","w","n">>) \o <<" ","b","y"," ">>
         \o RatToString(RatAbs(round(change, 0))) \o <<"%">>

HrvLine(avgHrv, change) ==
  IF avgHrv = Null THEN <<"H","R","V",":"," ","A","w","a","i","t","i","n","g"," ","s","y","n","c">>
  ELSE IF change = Null THEN <<"H","R","V"," ","s","t","a","b","l","e"," ","b","y"," ">> \o EmDash
  ELSE <<"H","R","V"," ">> \o (IF change.p >= 0 THEN <<"u","p">> ELSE <<"d","o","w","n">>) \o <<" ","b","y"," ">>
         \o RatToString(round(change, 0)) \o <<"%">>

RhrLine(avgRhr, change) ==
  IF avgRhr = Null THEN <<"R","e","s","t","i","n","g"," ","H","R",":"," ","A","w","a","i","t","i","n","g"," ","s","y","n","c">>
  ELSE IF change = Null THEN <<"R","e","s","t","i","n","g"," ","H","R"," ","s","t","a","b","l","e"," ","b","y"," ">> \o EmDash
  ELSE <<"R","e","s","t","i","n","g"," ","H","R"," ">> \o (IF change.p <= 0 THEN <<"d","o","w","n">> ELSE <<"u","p">>)
         \o <<" ","b","y"," ">> \o RatToString(round(RatAbs(change), 0)) \o <<" ","b","p","m">>

trendBits(a, c, goal) ==
  <<SleepLine(a.sleep, goal), HrvLine(a.hrv, c.hrv), RhrLine(a.rhr, c.rhr)>>

\* Action items
stressFlag(c) ==
  \/ c.hrv # Null /\ Less(c.hrv, Of(0 - 3))
  \/ c.rhr # Null /\ Less(Of(1), c.rhr)
MaintainConsistency ==
  <<"Maintain consistency: keep sleep and training routines steady">>
actions(a, c, goal) ==
  IF ~(a.sleep # Null /\ Less(a.sleep, goal)) /\ ~stressFlag(c)
    THEN MaintainConsistency
  ELSE If(a.sleep # Null /\ Less(a.sleep, goal),
          <<"Add 30 minutes earlier bedtime">>)
         \o If(stressFlag(c), <<"One extra rest/low-intensity day mid-week">>)

\* One-liner summary
summaryText(a, c, goal) ==
  IF a.sleep # Null /\ a.hrv # Null /\ a.rhr # Null
    THEN <<"HRV ",
           IF c.hrv = Null THEN "stable"
           ELSE IF c.hrv.p >= 0 THEN "improving" ELSE "dipping",
           ", resting HR ",
           IF c.rhr = Null THEN "steady"
           ELSE IF c.rhr.p <= 0 THEN "improving" ELSE "elevated",
           ". Sleep ",
           IF ~Less(a.sleep, goal) THEN "near target"
           ELSE "slightly below target", ".">>
  ELSE IF a.sleep = Null /\ a.hrv = Null /\ a.rhr = Null
    THEN <<"Awaiting sync: not enough data this week.">>
  ELSE <<"Weekly report generated.">>

RoundedOrNull(x) == IF x = Null THEN Null ELSE Of(RoundRat(x))

WeeklyReport(uid, weekStart, weekEnd, goal, cur, a, c) ==
  [user_id |-> uid, week_start |-> weekStart, week_end |-> weekEnd,
   goal_sleep_minutes |-> goal,
   days_count |-> cur.days_count,
   days_with_sleep |-> Len(cur.sleepMins),
   days_with_hrv |-> Len(cur.hrvVals),
   days_with_resting_hr |-> Len(cur.rhrVals),
   avg_sleep_minutes |-> RoundedOrNull(a.sleep),
   avg_hrv |-> RoundOrNull(a.hrv, 4),
   avg_resting_hr |-> RoundOrNull(a.rhr, 4),
   sleep_change_pct |-> RoundOrNull(c.sleep, 6),
   hrv_change_pct |-> RoundOrNull(c.hrv, 6),
   resting_hr_change_bpm |-> RoundOrNull(c.rhr, 6),
   summary_text |-> summaryText(a, c, goal),
   trends_json |->
     [window |-> [week_start |-> weekStart, week_end |-> weekEnd],
      averages |-> [sleep_minutes |-> RoundedOrNull(a.sleep),
                    hrv_ms |-> RoundOrNull(a.hrv, 1),
                    resting_hr_bpm |-> RoundOrNull(a.rhr, 1)],
      changes_vs_prev7 |->
        [sleep_change_pct |-> RoundOrNull(c.sleep, 1),
         hrv_change_pct |-> RoundOrNull(c.hrv, 1),
         resting_hr_change_bpm |-> RoundOrNull(c.rhr, 1)],
      lines |-> trendBits(a, c, goal)],
   action_items_json |-> actions(a, c, goal)]

Throw(message) == [threw |-> message]

ReportOfAverages(uid, weekStart, weekEnd, goal, cur, a) ==
  WeeklyReport(uid, weekStart, weekEnd, goal, cur, a, Changes(a))
ReportOfWindow(uid, weekStart, weekEnd, goal, cur, prevDailyRows) ==
  ReportOfAverages(uid, weekStart, weekEnd, goal, cur,
                   Averages(cur, prevDailyRows))

buildWeeklyReport(in) ==
  IF ~Truthy(in.uid) THEN Throw("Missing uid")
  ELSE IF ~isValidYmd(in.end)
    THEN Throw("Invalid end date (YYYY-MM-DD required)")
  ELSE IF \E i \in 1..Len(in.prevDailyRows) : in.prevDailyRows[i] = Null
    THEN Throw("TypeError: Cannot read properties of null")
  ELSE ReportOfWindow(
         in.uid, addDaysUTC(in.end.s, 0 - 6), in.end.s,
         Of(in.goalSleepMinutes),
         CurrentWindow(SelectSeq(in.dailyRows,
           LAMBDA r : InWeek(r, addDaysUTC(in.end.s, 0 - 6), in.end.s))),
         in.prevDailyRows)

\* ------------------------------------------------------------------------
\* the earlier api/weeklyReportCalc.js: buildWeeklyReport(rows, options),
\* the variant that reports a status
\* ------------------------------------------------------------------------
\* parseDateYYYYMMDD(s): the day number of new Date(`${s.slice(0, 10)}
\* T00:00:00Z`) where that is a date (IsValidDate); the parser takes a day
\* 1..31 in any month and carries it over
IsValidDate(s) ==
  /\ Truthy(s) /\ s.t = "str" /\ Len(s.s) >= 10
  /\ IsYmd(SubSeq(s.s, 1, 10))
  /\ DecVal(SubSeq(s.s, 6, 7)) \in 1..12
  /\ DecVal(SubSeq(s.s, 9, 10)) \in 1..31
parseDateYYYYMMDD(s) ==
  DaysFromCivil(DecVal(SubSeq(s.s, 1, 4)), DecVal(SubSeq(s.s, 6, 7)), 1)
    + DecVal(SubSeq(s.s, 9, 10)) - 1

\* pctChange(current, previous) of this variant: Number(null) is 0
NumberOfAverage(x) == IF x = Null THEN Of(0) ELSE x
pctChangeNumber(current, previous) ==
  pctChange(NumberOfAverage(current), NumberOfAverage(previous))

\* round1(n): Number(null) is 0
round1(x) == round(NumberOfAverage(x), 1)

\* the latest date of the dated rows
RECURSIVE LatestDate(_)
LatestDate(cleaned) ==
  IF Len(cleaned) = 1 THEN parseDateYYYYMMDD(cleaned[1].date)
  ELSE IF parseDateYYYYMMDD(Head(cleaned).date) > LatestDate(Tail(cleaned))
    THEN parseDateYYYYMMDD(Head(cleaned).date)
  ELSE LatestDate(Tail(cleaned))

\* Determine end date: prefer explicit, else latest date in DB
EndDate(cleaned, endDate) ==
  IF IsValidDate(endDate)
    THEN parseDateYYYYMMDD(endDate)
  ELSE LatestDate(cleaned)

inRange(day, a, b) == day >= a /\ day <= b
RowsInRange(cleaned, a, b) ==
  SelectSeq(cleaned, LAMBDA r : inRange(parseDateYYYYMMDD(r.date), a, b))

\* pick(arr, key): finite and not 0
Picked(x) == x.t = "num" /\ x.n # 0
NumbersPicked(rws, Val(_)) ==
  LET kept == SelectSeq(rws, LAMBDA r : Picked(Val(r)))
  IN [i \in 1..Len(kept) |-> Val(kept[i]).n]
SleepMinutesNumber(r) == Number(r.sleep_duration_minutes)

\* sum of the finite values >= 0
StepsNumber(r) == Number(r.steps)
ActiveCaloriesNumber(r) == Number(r.active_calories)
NotNegative(x) == x.t = "num" /\ x.n >= 0
sum(rws, Val(_)) ==
  LET kept == SelectSeq(rws, LAMBDA r : NotNegative(Val(r)))
  IN SumOf([i \in 1..Len(kept) |-> Val(kept[i]).n])

\* the averages and totals of the two windows
WindowAverages(last7, prev7) ==
  [sleep |-> avg(PositiveNumbers(last7, SleepMinutesNumber)),
   prevSleep |-> avg(PositiveNumbers(prev7, SleepMinutesNumber)),
   hrv |-> avg(NumbersPicked(last7, HrvNumber)),
   prevHrv |-> avg(NumbersPicked(prev7, HrvNumber)),
   rhr |-> avg(NumbersPicked(last7, RhrNumber)),
   prevRhr |-> avg(NumbersPicked(prev7, RhrNumber)),
   steps |-> sum(last7, StepsNumber),
   active_calories |-> sum(last7, ActiveCaloriesNumber)]

\* hrvDeltaPct, rhrDelta
Deltas(a) ==
  [hrv |-> pctChangeNumber(a.hrv, a.prevHrv),
   rhr |-> IF a.rhr # Null /\ a.prevRhr # Null
             THEN Minus(a.rhr, a.prevRhr) ELSE Null]

\* Missing detection
MissingMetrics(a) ==
  If(a.sleep = Null, <<"sleep">>) \o If(a.hrv = Null, <<"hrv">>)
    \o If(a.rhr = Null, <<"resting_hr">>)

\* Build narrative pieces
trends(a, c, goal) ==
  <<IF a.sleep # Null
      THEN <<"A","v","e","r","a","g","e"," ","s","l","e","e","p",":"," ">> \o minutesToHhMm(a.sleep) \o <<" ","(","g","o","a","l"," ">>
             \o minutesToHhMm(goal) \o <<")">>
      ELSE <<"A","v","e","r","a","g","e"," ","s","l","e","e","p",":"," ","A","w","a","i","t","i","n","g"," ","s","y","n","c">>,
    IF c.hrv # Null
      THEN <<"H","R","V"," ">> \o (IF c.hrv.p >= 0 THEN <<"u","p">> ELSE <<"d","o","w","n">>)
             \o <<" ","b","y"," ">> \o IntToString(Abs(RoundRat(c.hrv))) \o <<"%">>
      ELSE <<"H","R","V",":"," ","A","w","a","i","t","i","n","g"," ","s","y","n","c">>,
    IF c.rhr # Null
      THEN <<"R","e","s","t","i","n","g"," ","H","R"," ">> \o (IF c.rhr.p <= 0 THEN <<"d","o","w","n">> ELSE <<"u","p">>)
             \o <<" ","b","y"," ">> \o RatToString(RatAbs(round(c.rhr, 1))) \o <<" ","b","p","m">>
      ELSE <<"R","e","s","t","i","n","g"," ","H","R",":"," ","A","w","a","i","t","i","n","g"," ","s","y","n","c">>>>

HighLoad(a) ==
  a.steps > 70000 * Scale \/ a.active_calories > 3500 * Scale
action_items(a, c, goal) ==
  If(a.sleep # Null /\ Less(a.sleep, Minus(goal, Of(1))),
     <<"Add 30 minutes earlier bedtime">>)
    \o If(c.hrv # Null /\ Less(c.hrv, Of(0 - 5)),
          <<"Plan one extra low-intensity / recovery day this week">>)
    \o If(c.rhr # Null /\ Less(Of(2), c.rhr),
          <<"Reduce intensity 1 day; prioritize sleep + hydration">>)
    \o If(HighLoad(a), <<"One extra rest/low-intensity day mid-week">>)

\* Summary sentence
SummarySentence(a, c) ==
  IF c.hrv # Null /\ c.rhr # Null
    THEN <<"HRV ", IF c.hrv.p >= 0 THEN "stable/improving" ELSE "dropping",
           ", resting HR ", IF c.rhr.p <= 0 THEN "improving" ELSE "rising",
           ".">>
  ELSE IF MissingMetrics(a) # <<>>
    THEN <<"Partial data synced. Some metrics are missing.">>
  ELSE <<"Weekly report generated.">>

\* [...new Set(action_items)]: the first occurrence of each item
RECURSIVE Distinct(_)
Distinct(items) ==
  IF items = <<>> THEN <<>>
  ELSE <<Head(items)>>
         \o Distinct(SelectSeq(Tail(items), LAMBDA x : x # Head(items)))
slice(items, from, to) ==
  SubSeq(items, from + 1, IF to < Len(items) THEN to ELSE Len(items))

\* Always keep action items short, unique, max 3: the variants without the
\* limit, and without the item of an empty list
uniqUnlimited(items) ==
  IF Distinct(items) = <<>>
    THEN <<"Keep consistency: sleep, hydration, and steady training load.">>
  ELSE Distinct(items)
uniq(items) ==
  IF slice(Distinct(items), 0, 3) = <<>>
    THEN <<"Keep consistency: sleep, hydration, and steady training load.">>
  ELSE slice(Distinct(items), 0, 3)

AwaitingSync ==
  [status |-> "awaiting_sync",
   message |-> "No data found for this user yet.",
   period |-> Null,
   summary |-> <<"Awaiting sync">>,
   trends |-> <<>>,
   action_items |->
     <<"Sync your Apple Health data to generate a weekly report.">>,
   stats |-> <<>>,
   missing |-> <<"sleep", "hrv", "resting_hr">>]

\* toISOString().slice(0, 10)
IsoDay(days) == IsoDate(CivilFromDays(days))

RowsReport(end, days_included, goal, a, c) ==
  [status |-> IF Len(MissingMetrics(a)) >= 2 THEN "partial" ELSE "ok",
   message |-> "Success",
   period |-> [start |-> IsoDay(end - 6), end |-> IsoDay(end),
               days_included |-> days_included],
   summary |-> SummarySentence(a, c),
   trends |-> trends(a, c, goal),
   action_items |-> uniq(action_items(a, c, goal)),
   stats |->
     [avg_sleep_minutes_last7 |-> RoundedOrNull(a.sleep),
      sleep_goal_minutes |-> goal,
      avg_hrv_ms_last7 |-> round1(a.hrv),
      hrv_change_pct |-> round1(c.hrv),
      avg_resting_hr_bpm_last7 |-> round1(a.rhr),
      resting_hr_change_bpm |-> round1(c.rhr),
      steps_total_last7 |-> a.steps \div Scale,
      active_calories_total_last7 |-> a.active_calories \div Scale],
   missing |-> MissingMetrics(a)]

RowsReportOfAverages(end, days_included, goal, a) ==
  RowsReport(end, days_included, goal, a, Deltas(a))
RowsReportOfWindows(end, last7, prev7, goal) ==
  RowsReportOfAverages(end, Len(last7), goal, WindowAverages(last7, prev7))
RowsReportEnding(cleaned, end, goal) ==
  RowsReportOfWindows(end, RowsInRange(cleaned, end - 6, end),
                      RowsInRange(cleaned, end - 13, end - 7), goal)

buildWeeklyReportRows(rws, options) ==
  IF \E i \in 1..Len(rws) : rws[i] = Null
    THEN Throw("TypeError: Cannot read properties of null")
  ELSE IF SelectSeq(rws, LAMBDA r : IsValidDate(r.date)) = <<>>
    THEN AwaitingSync
  ELSE RowsReportEnding(
         SelectSeq(rws, LAMBDA r : IsValidDate(r.date)),
         EndDate(SelectSeq(rws, LAMBDA r : IsValidDate(r.date)),
                 options.endDate),
         Of(options.sleepGoalMinutes))

\* ------------------------------------------------------------------------
\* weekly report: the windows the builders are applied to
\* ------------------------------------------------------------------------
goalSleepMinutes == 450

WeekRow(date, sleep, hrv, resting_hr, steps, active_calories) ==
  [date |-> date, sleep_duration_minutes |-> sleep, hrv |-> hrv,
   resting_hr |-> resting_hr, steps |-> steps,
   active_calories |-> active_calories]

\* the metrics of one day: <<sleep, hrv, resting_hr, steps, active_calories>>
Tired == <<Whole(420), Whole(50), Whole(58), Whole(12000), Whole(600)>>
Steady == <<Whole(450), Whole(62), Whole(56), Whole(8000), Whole(400)>>
Eased == <<Whole(480), Whole(57), Whole(54), Whole(6000), Whole(300)>>
Rested == <<Whole(450), Whole(66), Whole(53), Whole(8000), Whole(400)>>
Baseline == <<Whole(450), Whole(60), Whole(55), Whole(8000), Whole(400)>>
Unsynced == <<Null, Null, Null, Null, Null>>
SleepOnly == <<Whole(400), Null, Null, Null, Null>>
HeartOnly == <<Null, Whole(60), Whole(55), Null, Null>>

RowOn(date, m) == WeekRow(date, m[1], m[2], m[3], m[4], m[5])
EndDay == DaysFromCivil(2025, 12, 14)
EndYmd == Str(formatYmdUTC(EndDay))

\* n days up to lastDay, the odd and the even ones with their own metrics
Window(lastDay, n, odd, even) ==
  [i \in 1..n |->
     RowOn(Str(formatYmdUTC(lastDay - n + i)),
           IF i % 2 = 1 THEN odd ELSE even)]

CurrentMetrics ==
  {<<Tired, Tired>>, <<Steady, Steady>>, <<Eased, Eased>>,
   <<Rested, Rested>>, <<Unsynced, Unsynced>>, <<SleepOnly, SleepOnly>>,
   <<HeartOnly, HeartOnly>>, <<Tired, Steady>>, <<Tired, Unsynced>>,
   <<Baseline, Baseline>>}
PreviousMetrics == {<<Baseline, Baseline>>, <<Unsynced, Unsynced>>,
                    <<Baseline, Rested>>}
DayCounts == {0, 1, 2, 4, 7}

WeeklyInput(uid, end, dailyRows, prevDailyRows) ==
  [uid |-> uid, end |-> end, goalSleepMinutes |-> goalSleepMinutes,
   dailyRows |-> dailyRows, prevDailyRows |-> prevDailyRows]

WeekInputs ==
  {WeeklyInput(Str(<<"u","1">>), EndYmd, Window(EndDay, n, c[1], c[2]),
               Window(EndDay - 7, m, p[1], p[2])) :
     n \in DayCounts, c \in CurrentMetrics, m \in DayCounts,
     p \in PreviousMetrics}

\* a request without uid, without or with a malformed end, and windows with
\* a null row, an undated row and a row of another week
OddInputs ==
  {WeeklyInput(Undef, EndYmd, Window(EndDay, 4, Tired, Tired),
               Window(EndDay - 7, 4, Baseline, Baseline)),
   WeeklyInput(Str(<<"u","1">>), Undef, Window(EndDay, 4, Tired, Tired),
               Window(EndDay - 7, 4, Baseline, Baseline)),
   WeeklyInput(Str(<<"u","1">>), Str(<<"2","0","2","5","-","1","2","-","1">>),
               Window(EndDay, 7, Tired, Tired),
               Window(EndDay - 7, 7, Baseline, Baseline)),
   WeeklyInput(Str(<<"u","1">>), EndYmd, Window(EndDay, 4, Tired, Tired),
               <<Null>>),
   WeeklyInput(Str(<<"u","1">>), EndYmd,
               <<Null>> \o Window(EndDay, 4, Tired, Tired),
               Window(EndDay - 7, 4, Baseline, Baseline)),
   WeeklyInput(Str(<<"u","1">>), EndYmd,
               <<RowOn(Null, Tired)>> \o Window(EndDay, 2, Tired, Tired),
               Window(EndDay - 7, 4, Baseline, Baseline)),
   WeeklyInput(Str(<<"u","1">>), EndYmd,
               Window(EndDay - 20, 1, Tired, Tired)
                 \o Window(EndDay, 4, Steady, Steady),
               Window(EndDay - 7, 4, Baseline, Baseline))}

WeeklyInputs == WeekInputs \cup OddInputs

InitWeekly ==
  /\ IngestIdle
  /\ dayRow = Null
  /\ readiness = Undef
  /\ weekly \in WeeklyInputs
  /\ report = Undef

\* GET /api/weekly-report: the report of the two windows
BuildWeeklyReport ==
  /\ weekly # Undef
  /\ report = Undef
  /\ report' = buildWeeklyReport(weekly)
  /\ UNCHANGED <<ingestVars, dayRow, readiness, weekly>>

\* the earlier builder, on the rows of both windows
BuildWeeklyReportRows ==
  /\ weekly # Undef
  /\ report = Undef
  /\ report' = buildWeeklyReportRows(
                 weekly.prevDailyRows \o weekly.dailyRows,
                 [endDate |-> weekly.end,
                  sleepGoalMinutes |-> weekly.goalSleepMinutes])
  /\ UNCHANGED <<ingestVars, dayRow, readiness, weekly>>

NextWeekly == BuildWeeklyReport \/ BuildWeeklyReportRows
SpecWeekly == InitWeekly /\ [][NextWeekly]_vars

\* ------------------------------------------------------------------------
\* weekly report: properties
\* ------------------------------------------------------------------------
IsWeeklyReport == "user_id" \in DOMAIN report
IsRowsReport == "status" \in DOMAIN report

NonNull(v) == v.t \notin {"null", "undef"}
MetricNames == {"sleep_duration_minutes", "hrv", "resting_hr", "steps",
                "active_calories"}

\* the rows of a window dated from first to last
DatedWithin(rws, first, last) ==
  SelectSeq(rws, LAMBDA r :
    /\ r # Null /\ r.date.t = "str"
    /\ ~StrLess(r.date.s, first) /\ ~StrLess(last, r.date.s))
CurrentRows ==
  DatedWithin(weekly.dailyRows, addDaysUTC(weekly.end.s, 0 - 6),
              weekly.end.s)
PreviousRows ==
  DatedWithin(weekly.prevDailyRows, addDaysUTC(weekly.end.s, 0 - 13),
              addDaysUTC(weekly.end.s, 0 - 7))

\* days with at least one non-null metric
SyncedDays(rws) ==
  Cardinality({i \in 1..Len(rws) : \E k \in MetricNames : NonNull(rws[i][k])})
\* days on which the metric is non-null
PopulatedDays(rws, k) ==
  Cardinality({i \in 1..Len(rws) : NonNull(rws[i][k])})

StartsWith(line, prefix) ==
  Len(line) >= Len(prefix) /\ SubSeq(line, 1, Len(prefix)) = prefix
RECURSIVE Contains(_, _)
Contains(line, part) ==
  IF Len(line) < Len(part) THEN FALSE
  ELSE StartsWith(line, part) \/ Contains(Tail(line), part)

\* C16: the status of the weekly report is awaiting_sync when the current
\* window has no synced day, partial when it has one to three synced days,
\* and ok otherwise
C16_StatusBySyncedDays ==
  (IsRowsReport /\ isValidYmd(weekly.end)) =>
    report.status =
      IF SyncedDays(CurrentRows) = 0 THEN "awaiting_sync"
      ELSE IF SyncedDays(CurrentRows) < 4 THEN "partial"
      ELSE "ok"

\* the comparison fields of the report, and the lines that state them
ComparisonOf(k) ==
  IF k = "hrv" THEN report.hrv_change_pct
  ELSE IF k = "resting_hr" THEN report.resting_hr_change_bpm
  ELSE report.sleep_change_pct
ComparedMetrics == {"hrv", "resting_hr", "sleep_duration_minutes"}
ChangeLines ==
  [hrv |-> report.trends_json.lines[2],
   resting_hr |-> report.trends_json.lines[3],
   sleep_duration_minutes |-> report.trends_json.lines[1]]

\* C17: a comparison of a metric is non-null only if both windows have at
\* least 4 populated days for it; otherwise no percent or absolute change
\* appears in the narrative
C17_ComparisonNeedsFourDays ==
  IsWeeklyReport =>
    \A k \in ComparedMetrics :
      (PopulatedDays(CurrentRows, k) < 4 \/ PopulatedDays(PreviousRows, k) < 4)
        => /\ ComparisonOf(k) = Null
           /\ ~Contains(ChangeLines[k], <<"%">>)
           /\ ~Contains(ChangeLines[k], <<" ","b","p","m">>)

\* every populated day of the window has this HRV, and there are at least 4
HrvAllWeek(rws, ms) ==
  /\ PopulatedDays(rws, "hrv") >= 4
  /\ \A i \in 1..Len(rws) : NonNull(rws[i].hrv) => rws[i].hrv = Whole(ms)
NoHrv(rws) == PopulatedDays(rws, "hrv") = 0
HrvChangeReported == report.trends_json.changes_vs_prev7.hrv_change_pct

\* C18: the HRV change is null when either window has no HRV average; for a
\* current average of 50 and a previous average of 60 the reported change is
\* -16.7 and the narrative line reads "HRV down by 17%"
C18_HrvChangeAndLine ==
  IsWeeklyReport =>
    /\ (NoHrv(CurrentRows) \/ NoHrv(PreviousRows))
         => HrvChangeReported = Null
    /\ (HrvAllWeek(CurrentRows, 50) /\ HrvAllWeek(PreviousRows, 60))
         => /\ HrvChangeReported = Rat(0 - 167, 10)
            /\ ChangeLines.hrv = <<"H","R","V"," ","d","o","w","n"," ","b","y"," ","1","7","%">>

\* the word the thresholds give a change
WordOf(change, threshold) ==
  IF Less(Of(threshold), change) THEN <<"u","p">>
  ELSE IF Less(change, Of(0 - threshold)) THEN <<"d","o","w","n">>
  ELSE <<"s","t","a","b","l","e">>
WordAtOrBeyond(change, threshold) ==
  IF ~Less(change, Of(threshold)) THEN <<"u","p">>
  ELSE IF ~Less(Of(0 - threshold), change) THEN <<"d","o","w","n">>
  ELSE <<"s","t","a","b","l","e">>

\* C19: the HRV line says "up" above +5%, "down" below -5% and "stable"
\* otherwise; the resting HR line says "down" at or below -2 bpm, "up" at
\* or above +2 bpm and "stable" otherwise
C19_DirectionWordsByThreshold ==
  IsWeeklyReport =>
    /\ report.hrv_change_pct # Null =>
         StartsWith(ChangeLines.hrv,
                    <<"H","R","V"," ">> \o WordOf(report.hrv_change_pct, 5) \o <<" ">>)
    /\ report.resting_hr_change_bpm # Null =>
         StartsWith(ChangeLines.resting_hr,
                    <<"R","e","s","t","i","n","g"," ","H","R"," ">>
                      \o WordAtOrBeyond(report.resting_hr_change_bpm, 2)
                      \o <<" ">>)

ActionItems ==
  IF IsWeeklyReport THEN report.action_items_json ELSE report.action_items
\* the advice a condition gives, and the items of no condition
Advice ==
  {"Add 30 minutes earlier bedtime",
   "One extra rest/low-intensity day mid-week",
   "Plan one extra low-intensity / recovery day this week",
   "Reduce intensity 1 day; prioritize sleep + hydration",
   "Sync your Apple Health data to generate a weekly report."}
Neutral ==
  {"Maintain consistency: keep sleep and training routines steady",
   "Keep consistency: sleep, hydration, and steady training load."}

MissingNames == Names(readiness.missing)
\* what the total needs: sleep, HRV, resting HR, and steps or active calories
CoreMissing ==
  \/ MissingNames \cap {"sleep", "hrv", "resting_hr"} # {}
  \/ {"steps", "active_calories"} \subseteq MissingNames

HourField ==
  [sleep_duration_minutes |-> "totalSleep", sleep_deep_minutes |-> "deep",
   sleep_rem_minutes |-> "rem", sleep_core_minutes |-> "core",
   sleep_awake_minutes |-> "awake"]
SleepTotals(row) == [f \in SleepFields |-> row[f]]
SummaryTotals(dp) == [f \in SleepFields |-> SpecifiedMinutes(dp[HourField[f]])]

\* request r takes a sleep sample that is no summary through the loop body
\* right after a summary of the same day
SegmentFollowsSummary(r) ==
  /\ AfterPoint(r) /\ IsSleepName(NameOf(r)) /\ IsSummaryShape(d[r])
  /\ DayOf(r).ok
  /\ count'[r] = count[r] + 1
  /\ IsSleepName(MetricName(metric'[r]))
  /\ ~IsSummaryShape(d'[r])
  /\ ResolveDay(DateStrOf(d'[r])) = DayOf(r)

\* C24: a summary-shape sleep sample is authoritative for its day within
\* the batch also when segments of the day come after it: the five sleep
\* fields stay the summary's converted totals.
C24_SummaryStaysAuthoritative ==
  [][\A r \in Requests :
       SegmentFollowsSummary(r) =>
         SleepTotals(summary'[r][DayIndex(summary'[r], DayOf(r).day)])
           = SummaryTotals(d[r])]_vars

\* the data point request r has just taken is one the loop skips: no
\* timestamp that resolves to a day, a name that is not known, no value, or
\* a sleep segment with no positive duration
NoDuration(dp) ==
  \/ ~SegmentStart(dp).ok
  \/ ~SegmentEnd(dp).ok
  \/ MinutesBetween(SegmentStart(dp), SegmentEnd(dp)).n <= 0
SkippedPoint(r) ==
  \/ ~DayOf(r).ok
  \/ ~isKnown(NameOf(r))
  \/ ~IsSleepName(NameOf(r)) /\ IsNullish(ValueOf(d[r]))
  \/ IsSleepName(NameOf(r)) /\ ~IsSummaryShape(d[r]) /\ NoDuration(d[r])

\* C25: a skipped sample leaves the day records as they were, creating
\* none and changing none, so a batch of skipped samples only ends with no
\* record and no upsert.
C25_SkippedPointChangesNothing ==
  \A r \in Requests :
    (AfterPoint(r) /\ SkippedPoint(r)) => summary[r] = before[r]

\* the day bucket as specified: the first field present among date, end,
\* endDate, start, startDate; its first ten characters when they have the
\* form YYYY-MM-DD, the UTC calendar date of the timestamp otherwise
FirstPresent(dp) ==
  Coalesce(dp.date, Coalesce(dp.end, Coalesce(dp.endDate,
    Coalesce(dp.start, dp.startDate))))
CalendarDate(c) ==
  (IF c.y >= 0 /\ c.y <= 9999 THEN Pad(c.y, 4) ELSE DecChars(c.y))
    \o <<"-">> \o Pad(c.m, 2) \o <<"-">> \o Pad(c.d, 2)
SpecifiedDayOfText(text) ==
  IF Len(text) >= 10 /\ IsYmd(SubSeq(text, 1, 10))
    THEN [ok |-> TRUE, day |-> SubSeq(text, 1, 10)]
  ELSE IF ParseDate(text).ok
    THEN [ok |-> TRUE, day |-> CalendarDate(CivilFromDays(ParseDate(text).day))]
  ELSE NoDay
SpecifiedDay(dp) ==
  IF IsNullish(FirstPresent(dp)) THEN NoDay
  ELSE SpecifiedDayOfText(trim(String(FirstPresent(dp))))

\* C28: the day of a sample is resolved from the first present field in the
\* order date, end, start: its first ten characters when they match
\* YYYY-MM-DD, the UTC calendar date of the parsed timestamp otherwise; a
\* sample whose field is absent or does not parse is skipped and the loop
\* goes on.
C28_DayFromFirstPresentField ==
  \A r \in Requests :
    AfterPoint(r) =>
      /\ DayOf(r) = SpecifiedDay(d[r])
      /\ \A i \in 1..Len(summary[r]) :
           (i > Len(before[r]) \/ summary[r][i] # before[r][i]) =>
             SpecifiedDay(d[r]).ok /\ summary[r][i].date = SpecifiedDay(d[r]).day
      /\ ~SpecifiedDay(d[r]).ok => summary[r] = before[r]

\* the fields of the kinds of a name: the five sleep fields for sleep, the
\* field of the kind for any other
FieldsOfName(name) ==
  IF IsSleepName(name) THEN SleepFields
  ELSE ClassifierKinds(name) \ {"sleep"}
RecordFields == NumericFields \cup {"user_id", "date"}

\* C29: a sample changes only the fields of its own kind in the record of
\* its own day: every other field of that record and every record of
\* another day stay as they were.
C29_OnlyOwnFieldsOfOwnDay ==
  \A r \in Requests :
    AfterPoint(r) =>
      /\ Len(summary[r]) >= Len(before[r])
      /\ \A day \in Days(summary[r]) : \A f \in RecordFields :
           RowAfter(r, day)[f] # RowBefore(r, day)[f] =>
             /\ DayOf(r).ok /\ DayOf(r).day = day
             /\ f \in FieldsOfName(NameOf(r))
      /\ \A day \in Days(summary[r]) \ Days(before[r]) :
           DayOf(r).ok /\ DayOf(r).day = day

\* C29: a step count of a day whose record already has a resting heart
\* rate: the steps are added and the resting heart rate is as it was
C29_Witness ==
  \E r \in Requests :
    /\ AfterPoint(r)
    /\ NameOf(r) = step_count
    /\ DayOf(r).ok /\ HasDay(before[r], DayOf(r).day)
    /\ RowBefore(r, DayOf(r).day).resting_hr = Whole(72)
    /\ RowBefore(r, DayOf(r).day).steps = Whole(0)
    /\ RowAfter(r, DayOf(r).day).resting_hr = Whole(72)
    /\ RowAfter(r, DayOf(r).day).steps # Whole(0)

\* C27: ingestion rebuilds, it does not merge: when the batch of request 1
\* and then the batch of request 2 were stored, the row of every key of the
\* second batch is the record built from the samples of the second batch
\* alone: its sums are those of the second batch, and a point-in-time field
\* the second batch did not observe is null.
C27_SecondBatchRebuildsRow ==
  applied = <<1, 2>> =>
    \A i \in 1..Len(OwnRows(2)) :
      /\ OwnRows(2)[i] \in store
      /\ \A s \in store : SameKey(s, OwnRows(2)[i]) => s = OwnRows(2)[i]

\* C27: the first batch stored 60 steps and a resting heart rate 55 for a
\* day, the second batch 60 steps for the same day: the stored row has 60
\* steps and no resting heart rate
C27_Witness ==
  /\ applied = <<1, 2>>
  /\ \E s \in store :
       /\ HasKey(rows[1], s) /\ HasKey(rows[2], s)
       /\ RowOfKey(rows[1], s).steps = Whole(60)
       /\ RowOfKey(rows[1], s).resting_hr = Whole(55)
       /\ s.steps = Whole(60)
       /\ s.resting_hr = Null

\* ---------------------------------------------------------------------
\* Claims on the weekly report's advice and on missing data
\* ---------------------------------------------------------------------

\* the items that advise on training or sleep
TrainingAdvice ==
  {"Add 30 minutes earlier bedtime",
   "One extra rest/low-intensity day mid-week",
   "Plan one extra low-intensity / recovery day this week",
   "Reduce intensity 1 day; prioritize sleep + hydration"}

\* C21: a weekly report whose status is not ok (awaiting_sync or partial)
\* carries no earlier-bedtime, extra-rest-day or reduce-intensity item.
C21_NoAdviceUnlessOk ==
  (IsRowsReport /\ report.status # "ok") =>
    \A i \in 1..Len(report.action_items) :
      report.action_items[i] \notin TrainingAdvice

\* the request names a user and a well-formed end date
IdentifiersValid == Truthy(weekly.uid) /\ isValidYmd(weekly.end)
Raised == "threw" \in DOMAIN report

\* C22: a weekly computation does not raise for missing or null data: with
\* a valid user and end date, whatever the windows hold (no rows, rows of
\* nulls, null rows), the builder returns a report.
C22_NoThrowOnMissingData ==
  (report # Undef /\ IdentifiersValid) => ~Raised

\* ------------------------------------------------------------------------
\* The serverless ingestion handler (src/index.js)
\* ------------------------------------------------------------------------
\* the record its ensureDay creates for a new day
Now == Str(<<"2","0","2","5","-","1","2","-","1","0","T","0","8",":","0","0",":","0","0",".","0","0","0","Z">>)
NewDayRecord(uid, day) ==
  [user_id |-> uid,
   date |-> day,
   resting_hr |-> Null,
   hrv |-> Null,
   sleep_duration_minutes |-> Whole(0),
   sleep_deep_minutes |-> Whole(0),
   sleep_rem_minutes |-> Whole(0),
   sleep_core_minutes |-> Whole(0),
   systolic |-> Null,
   diastolic |-> Null,
   weight_kg |-> Null,
   body_fat_percentage |-> Null,
   glucose_mgdl |-> Null,
   steps |-> Whole(0),
   active_calories |-> Whole(0),
   basal_calories |-> Whole(0),
   created_at |-> Now,
   updated_at |-> Now]

\* cs.split("T")[0]: the text before the first T
BeforeT(cs) ==
  IF \E i \in 1..Len(cs) : cs[i] = "T"
    THEN SubSeq(cs, 1, (CHOOSE i \in 1..Len(cs) :
                          cs[i] = "T" /\ \A j \in 1..(i - 1) : cs[j] # "T") - 1)
  ELSE cs

\* ensureDay(dateStr) of a date string
IndexDay(dateStr) ==
  IF IsYmd(BeforeT(Or(dateStr, Str(<<>>)).s))
    THEN [ok |-> TRUE, day |-> BeforeT(dateStr.s)]
  ELSE NoDay
IndexEnsure(sm, uid, r) ==
  IF ~r.ok THEN [summary |-> sm, row |-> 0]
  ELSE IF HasDay(sm, r.day) THEN [summary |-> sm, row |-> DayIndex(sm, r.day)]
  ELSE [summary |-> Append(sm, NewDayRecord(uid, r.day)), row |-> Len(sm) + 1]

\* d.date || d.start || d.startDate
IndexDateStr(dp) == Or(dp.date, Or(dp.start, dp.startDate))

\* the mappings of the value, which is stored as it came
IndexMetricRow(row, name, value) ==
  [row EXCEPT
     !.resting_hr = IF includes(name, resting_heart_rate) THEN value ELSE @,
     !.hrv = IF includes(name, heart_rate_variability_sdnn) THEN value ELSE @,
     !.steps = IF includes(name, step_count)
                 THEN Plus(@, Number(Or(value, Whole(0)))) ELSE @,
     !.active_calories = IF includes(name, active_energy_burned)
                           THEN Plus(@, Number(Or(value, Whole(0)))) ELSE @,
     !.basal_calories = IF includes(name, basal_energy_burned)
                          THEN Plus(@, Number(Or(value, Whole(0)))) ELSE @,
     !.weight_kg = IF includes(name, body_mass) THEN value ELSE @,
     !.body_fat_percentage =
       IF includes(name, body_fat_percentage) THEN value ELSE @,
     !.glucose_mgdl = IF includes(name, blood_glucose) THEN value ELSE @,
     !.systolic = IF includes(name, blood_pressure_systolic) THEN value ELSE @,
     !.diastolic =
       IF includes(name, blood_pressure_diastolic) THEN value ELSE @]

\* the sleep_analysis part: the minutes from start to end go to the total and
\* to the bucket of the stage (3 deep, 4 rem, 2 and 1 core)
IndexStageBucket(stage) ==
  IF (stage.t = "num" /\ stage.n = 3 * Scale) \/ String(stage) = <<"D","e","e","p">>
    THEN "deep"
  ELSE IF (stage.t = "num" /\ stage.n = 4 * Scale) \/ String(stage) = <<"R","E","M">>
    THEN "rem"
  ELSE IF stage.t = "num" /\ stage.n \in {2 * Scale, 1 * Scale} THEN "core"
  ELSE "none"
IndexSegmentRow(row, minutes, stage) ==
  AddToBucket([row EXCEPT !.sleep_duration_minutes = Plus(@, minutes)],
              IndexStageBucket(stage), minutes)
IndexSleepRow(row, name, start, end, stage) ==
  IF ~includes(name, sleep_analysis) \/ ~start.ok \/ ~end.ok THEN row
  ELSE IndexSegmentRow(row, MinutesBetween(start, end), stage)

\* the body of the loop over the data points of a metric
IndexRow(row, name, dp) ==
  IndexSleepRow(IndexMetricRow(row, name, ValueOf(dp)), name,
                NewDate(Or(dp.start, dp.startDate)),
                NewDate(Or(dp.end, dp.endDate)), dp.value)
IndexOnRow(e, name, dp) ==
  IF e.row = 0 THEN e.summary
  ELSE [e.summary EXCEPT ![e.row] = IndexRow(@, name, dp)]
IndexPoint(sm, uid, name, dp) ==
  IF ~Truthy(IndexDateStr(dp)) THEN sm
  ELSE IndexOnRow(IndexEnsure(sm, uid, IndexDay(IndexDateStr(dp))), name, dp)

\* the requests of the handler
Methods == {"GET", "POST"}
IsoDay2 == Str(<<"2","0","2","5","-","1","2","-","1","0","T","0","0",":","0","0",":","0","0","Z">>)
IsoDay2At7 == Str(<<"2","0","2","5","-","1","2","-","1","0","T","0","7",":","0","0",":","0","0","Z">>)
IndexPoints ==
  {[metric |-> Str(n), d |-> [Blank EXCEPT !.date = ts, !.qty = Whole(72)]] :
     n \in {step_count, resting_heart_rate, body_mass},
     ts \in {IsoZ, DateOnly, Day1}}
    \cup {[metric |-> Str(step_count), d |-> [Blank EXCEPT !.date = DateOnly]],
          [metric |-> Str(resting_heart_rate),
           d |-> [Blank EXCEPT !.qty = Whole(55)]],
          [metric |-> Str(sleep_analysis),
           d |-> Segment(IsoDay2, IsoZ, Whole(3))],
          [metric |-> Str(sleep_analysis),
           d |-> Segment(IsoZ, IsoDay2At7, Whole(0))],
          [metric |-> Str(sleep_analysis),
           d |-> Segment(IsoDay2At7, IsoZ, Whole(4))],
          [metric |-> Str(sleep_analysis),
           d |-> [Blank EXCEPT !.date = DateOnly, !.value = Whole(2)]]}

\* the handler up to the loop: the method and the user mapping
IndexReceive(method, uid, user_id) ==
  /\ pc[1] = "idle"
  /\ IF method # "POST"
       THEN /\ Respond(1, "405 Method not allowed")
            /\ UNCHANGED <<userId, summary>>
     ELSE IF ~Truthy(Or(Or(uid, user_id), Str(<<"u","n","k","n","o","w","n","_","u","s","e","r">>)))
       THEN /\ Respond(1, "400 Missing user_id/uid")
            /\ UNCHANGED <<userId, summary>>
     ELSE /\ pc' = [pc EXCEPT ![1] = "loop"]
          /\ userId' = [userId EXCEPT
                          ![1] = Or(Or(uid, user_id), Str(<<"u","n","k","n","o","w","n","_","u","s","e","r">>))]
          /\ summary' = [summary EXCEPT ![1] = <<>>]
          /\ UNCHANGED response
  /\ UNCHANGED <<metric, d, count, rows, store, applied, before, own>>
  /\ UNCHANGED calcVars

\* one data point of one metric goes through the loop body
IndexDataPoint(p) ==
  /\ pc[1] = "loop"
  /\ count[1] < MaxSamples
  /\ metric' = [metric EXCEPT ![1] = p.metric]
  /\ d' = [d EXCEPT ![1] = p.d]
  /\ count' = [count EXCEPT ![1] = @ + 1]
  /\ summary' = [summary EXCEPT
                   ![1] = IndexPoint(@, userId[1], MetricName(p.metric), p.d)]
  /\ before' = [before EXCEPT ![1] = summary[1]]
  /\ UNCHANGED <<pc, userId, rows, response, store, applied, own>>
  /\ UNCHANGED calcVars

\* the loop is over: the rows are the records, as they are
IndexBuildRows ==
  /\ pc[1] = "loop"
  /\ IF Len(summary[1]) = 0
       THEN /\ Respond(1, "200 No valid data to insert")
            /\ UNCHANGED rows
       ELSE /\ rows' = [rows EXCEPT ![1] = summary[1]]
            /\ pc' = [pc EXCEPT ![1] = "upsert"]
            /\ UNCHANGED response
  /\ UNCHANGED <<userId, summary, metric, d, count, store, applied, before,
                 own>>
  /\ UNCHANGED calcVars

\* the store applies the upsert and the handler answers
IndexUpsertDone ==
  /\ pc[1] = "upsert"
  /\ store' = UpsertRows(store, rows[1])
  /\ applied' = Append(applied, 1)
  /\ Respond(1, "200 Success")
  /\ UNCHANGED <<userId, summary, metric, d, count, rows, before, own>>
  /\ UNCHANGED calcVars

\* the store reports an error: nothing is written
IndexUpsertError ==
  /\ pc[1] = "upsert"
  /\ Respond(1, "500 error.message")
  /\ UNCHANGED <<userId, summary, metric, d, count, rows, store, applied,
                 before, own>>
  /\ UNCHANGED calcVars

NextIndex ==
  \/ \E method \in Methods, uid \in UidInputs, user_id \in UserIdInputs :
       IndexReceive(method, uid, user_id)
  \/ \E p \in IndexPoints : IndexDataPoint(p)
  \/ IndexBuildRows
  \/ IndexUpsertDone
  \/ IndexUpsertError

SpecIndex == Init /\ [][NextIndex]_vars

\* C23: an ingestion request that carries no user identifier (no uid in the
\* query, no user_id in the body) is rejected at once with the error
\* "Missing user_id/uid": the handler builds no record for it and does not
\* go on to the store.
C23_NoIdentifierRejected ==
  [][IndexReceive("POST", Undef, Undef) =>
       /\ response'[1] = "400 Missing user_id/uid"
       /\ pc'[1] = "done"]_vars

\* ------------------------------------------------------------------------
\* src/unnamed/part_003: weeklyReportCalc(rows, options), the builder that
\* takes the fetched rows of 14 days in one list
\* ------------------------------------------------------------------------
\* String(a.date).localeCompare(String(b.date)) < 0, for dates written with
\* digits and hyphens and for "null" and "undefined"
LocaleOrder == <<" ","-",":","+","0","1","2","3","4","5","6","7","8","9","d","e","f","i","l","n","T","u","Z">>
LocaleOf(c) == CHOOSE i \in 1..Len(LocaleOrder) : LocaleOrder[i] = c
RECURSIVE LocaleLess(_, _)
LocaleLess(a, b) ==
  IF b = <<>> THEN FALSE
  ELSE IF a = <<>> THEN TRUE
  ELSE IF Head(a) # Head(b) THEN LocaleOf(Head(a)) < LocaleOf(Head(b))
  ELSE LocaleLess(Tail(a), Tail(b))

\* [...rows].sort(by date asc): a stable sort
RECURSIVE InsertByDate(_, _)
InsertByDate(sorted, r) ==
  IF sorted = <<>> THEN <<r>>
  ELSE IF LocaleLess(String(r.date), String(sorted[Len(sorted)].date))
    THEN Append(InsertByDate(SubSeq(sorted, 1, Len(sorted) - 1), r),
                sorted[Len(sorted)])
  ELSE Append(sorted, r)
RECURSIVE SortByDate(_)
SortByDate(rws) ==
  IF rws = <<>> THEN <<>>
  ELSE InsertByDate(SortByDate(SubSeq(rws, 1, Len(rws) - 1)), rws[Len(rws)])

\* sorted.slice(-7) and sorted.slice(-14, -7)
Last7(sorted) ==
  SubSeq(sorted, IF Len(sorted) > 7 THEN Len(sorted) - 6 ELSE 1, Len(sorted))
Prev7(sorted) ==
  IF Len(sorted) <= 7 THEN <<>>
  ELSE SubSeq(sorted, IF Len(sorted) > 14 THEN Len(sorted) - 13 ELSE 1,
              Len(sorted) - 7)

\* the averages of the two slices
CalcAverages(last7, prev7) ==
  [sleep |-> avg(PositiveNumbers(last7, SleepMinutesNumber)),
   hrv |-> avg(PositiveNumbers(last7, HrvNumber)),
   rhr |-> avg(PositiveNumbers(last7, RhrNumber)),
   prevHrv |-> avg(PositiveNumbers(prev7, HrvNumber)),
   prevRhr |-> avg(PositiveNumbers(prev7, RhrNumber))]

\* Summary sentence (UI style)
HrvWord(x) ==
  IF Less(Of(2), x) THEN <<"i","m","p","r","o","v","i","n","g">>
  ELSE IF Less(x, Of(0 - 2)) THEN <<"d","o","w","n">> ELSE <<"s","t","a","b","l","e">>
RhrWord(x) ==
  IF Less(x, Rat(0 - 1, 2)) THEN <<"i","m","p","r","o","v","i","n","g">>
  ELSE IF Less(Rat(1, 2), x) THEN <<"w","o","r","s","e","n","i","n","g">> ELSE <<"s","t","a","b","l","e">>
SleepComment(a, goal) ==
  IF a.sleep = Null THEN <<" ","S","l","e","e","p"," ","d","a","t","a"," ","m","i","s","s","i","n","g"," ","f","o","r"," ","t","h","i","s"," ","w","e","e","k",".">>
  ELSE IF Less(Of(15), Minus(goal, a.sleep))
    THEN <<" ","S","l","e","e","p"," ","d","u","r","a","t","i","o","n"," ","s","l","i","g","h","t","l","y"," ","b","e","l","o","w"," ","t","a","r","g","e","t",".">>
  ELSE IF Less(Minus(goal, a.sleep), Of(0 - 15))
    THEN <<" ","S","l","e","e","p"," ","d","u","r","a","t","i","o","n"," ","a","b","o","v","e"," ","t","a","r","g","e","t",".">>
  ELSE <<" ","S","l","e","e","p"," ","c","l","o","s","e"," ","t","o"," ","t","a","r","g","e","t",".">>
summaryLine(a, c, goal) ==
  (IF c.hrv # Null /\ c.rhr # Null
     THEN <<"H","R","V"," ">> \o HrvWord(c.hrv) \o <<","," ","r","e","s","t","i","n","g"," ","H","R"," ">> \o RhrWord(c.rhr)
            \o <<".">>
   ELSE IF c.hrv # Null THEN <<"H","R","V"," ">> \o HrvWord(c.hrv) \o <<".">>
   ELSE IF c.rhr # Null THEN <<"R","e","s","t","i","n","g"," ","H","R"," ">> \o RhrWord(c.rhr) \o <<".">>
   ELSE <<"W","e","e","k","l","y"," ","s","u","m","m","a","r","y"," ","i","s"," ","b","e","i","n","g"," ","p","r","e","p","a","r","e","d",".">>)
    \o SleepComment(a, goal)

\* Trends block (UI style)
DeltaTxt(x, unit) ==
  IF x = Null THEN <<"t","r","e","n","d"," ","u","n","a","v","a","i","l","a","b","l","e">>
  ELSE (IF x.p >= 0 THEN <<"u","p">> ELSE <<"d","o","w","n">>) \o <<" ","b","y"," ">>
         \o RatToString(RatAbs(round(x, 1))) \o unit
trendsBlock(a, c, goal) ==
  If(a.sleep # Null,
     <<[label |-> "Average sleep",
        value |-> minutesToHhMm(a.sleep) \o <<" ","(","g","o","a","l"," ">>
                    \o minutesToHhMm(goal) \o <<")">>,
        raw |-> [avg_minutes |-> RoundedOrNull(a.sleep),
                 goal_minutes |-> goal]]>>)
    \o If(a.hrv # Null,
          <<[label |-> "HRV",
             value |-> RatToString(RoundOrNull(a.hrv, 1)) \o <<" ","m","s"," ","(">>
                         \o DeltaTxt(c.hrv, <<"%">>) \o <<")">>,
             raw |-> [avg_ms |-> RoundOrNull(a.hrv, 1),
                      delta_pct |-> RoundOrNull(c.hrv, 1)]]>>)
    \o If(a.rhr # Null,
          <<[label |-> "Resting HR",
             value |-> RatToString(RoundOrNull(a.rhr, 1)) \o <<" ","b","p","m"," ","(">>
                         \o DeltaTxt(c.rhr, <<" ","b","p","m">>) \o <<")">>,
             raw |-> [avg_bpm |-> RoundOrNull(a.rhr, 1),
                      delta_bpm |-> RoundOrNull(c.rhr, 1)]]>>)

\* Action items heuristic
ClampInt(n, lo, hi) == IF n < lo THEN lo ELSE IF n > hi THEN hi ELSE n
SleepItem(a, goal) ==
  IF a.sleep = Null
    THEN <<<<"E","n","a","b","l","e"," ","s","l","e","e","p"," ","t","r","a","c","k","i","n","g"," ","s","o"," ","w","e","e","k","l","y"," ","r","e","a","d","i","n","e","s","s"," ","c","a","n"," ","i","n","c","l","u","d","e"," ","s","l","e","e","p"," ","t","r","e","n","d","s",".">>>>
  ELSE IF Less(Of(20), Minus(goal, a.sleep))
    THEN <<<<"A","d","d"," ">>
             \o IntToString(ClampInt(RoundRat(Rat(Minus(goal, a.sleep).p,
                                                  2 * Minus(goal, a.sleep).q)),
                                     15, 45))
             \o <<" ","m","i","n","u","t","e","s"," ","e","a","r","l","i","e","r"," ","b","e","d","t","i","m","e",".">>>>
  ELSE <<>>
RestItem(c) ==
  If((c.hrv # Null /\ Less(c.hrv, Of(0 - 5)))
       \/ (c.rhr # Null /\ Less(Of(1), c.rhr)),
     <<<<"A","d","d"," ","o","n","e"," ","e","x","t","r","a"," ","r","e","s","t","/","l","o","w","-","i","n","t","e","n","s","i","t","y"," ","d","a","y"," ","m","i","d","-","w","e","e","k",".">>>>)
KeepRoutine ==
  <<"K","e","e","p"," ","y","o","u","r"," ","c","u","r","r","e","n","t"," ","r","o","u","t","i","n","e">>
    \o <<"A CIRCUMFLEX", "EURO SIGN", "RIGHT DOUBLE QUOTE">>
    \o <<"c","o","n","s","i","s","t","e","n","c","y"," ","i","s"," ","y","o","u","r"," ","u","n","f","a","i","r"," ","a","d","v","a","n","t","a","g","e",".">>
actionItems(a, c, goal) ==
  IF SleepItem(a, goal) \o RestItem(c) = <<>> THEN <<KeepRoutine>>
  ELSE SleepItem(a, goal) \o RestItem(c)

\* the report of the sorted rows
CalcReport(sorted, goal, a, c) ==
  [date_range |->
     [end_date |-> IF sorted = <<>> THEN Null ELSE sorted[Len(sorted)].date,
      days_in_window |-> Len(sorted)],
   summary |-> summaryLine(a, c, goal),
   trends |-> trendsBlock(a, c, goal),
   action_items |-> actionItems(a, c, goal),
   used |->
     [goal_sleep_minutes |-> goal,
      last7 |-> [sleep_avg_minutes |-> RoundedOrNull(a.sleep),
                 hrv_avg_ms |-> RoundOrNull(a.hrv, 1),
                 resting_hr_avg_bpm |-> RoundOrNull(a.rhr, 1)],
      prev7 |-> [hrv_avg_ms |-> RoundOrNull(a.prevHrv, 1),
                 resting_hr_avg_bpm |-> RoundOrNull(a.prevRhr, 1)],
      deltas |-> [hrv_delta_pct |-> RoundOrNull(c.hrv, 1),
                  resting_hr_delta_bpm |-> RoundOrNull(c.rhr, 1)]],
   missing |-> MissingMetrics(a)]
CalcReportOfAverages(sorted, goal, a) ==
  CalcReport(sorted, goal, a, Deltas(a))
CalcReportOfSorted(sorted, goal) ==
  CalcReportOfAverages(sorted, goal,
                       CalcAverages(Last7(sorted), Prev7(sorted)))

\* weeklyReportCalc(rows, options): a null row raises at r.date or at the
\* first r.sleep_duration_minutes
weeklyReportCalc(rws, options) ==
  IF \E i \in 1..Len(rws) : rws[i] = Null
    THEN Throw("TypeError: Cannot read properties of null")
  ELSE CalcReportOfSorted(SortByDate(rws), Of(options.goalSleepMinutes))

\* the oldest builder, on the rows fetched for the 14 days up to the end
WeeklyReportCalc ==
  /\ weekly # Undef
  /\ report = Undef
  /\ report' = weeklyReportCalc(
                 weekly.prevDailyRows \o weekly.dailyRows,
                 [goalSleepMinutes |-> weekly.goalSleepMinutes])
  /\ UNCHANGED <<ingestVars, dayRow, readiness, weekly>>

\* the three builders, on the same windows
NextWindows ==
  \/ BuildWeeklyReport
  \/ BuildWeeklyReportRows
  \/ WeeklyReportCalc
SpecWindows == InitWeekly /\ [][NextWindows]_vars

\* the report of weeklyReportCalc, and the rows it was given
IsCalcReport == "used" \in DOMAIN report
RowsGiven == weekly.prevDailyRows \o weekly.dailyRows
\* the rows are those of the 14 days up to the end
FetchedRange ==
  /\ IdentifiersValid
  /\ DatedWithin(RowsGiven, addDaysUTC(weekly.end.s, 0 - 13), weekly.end.s)
       = RowsGiven
CurrentOfGiven ==
  DatedWithin(RowsGiven, addDaysUTC(weekly.end.s, 0 - 6), weekly.end.s)
PreviousOfGiven ==
  DatedWithin(RowsGiven, addDaysUTC(weekly.end.s, 0 - 13),
              addDaysUTC(weekly.end.s, 0 - 7))

\* C26: the weekly report compares the windows [end-6, end] and
\* [end-13, end-7] by date: of the rows of the 14 days up to the end, with
\* whatever days missing, the averages of the current window are those of
\* the rows dated in [end-6, end] and the averages of the previous window
\* are those of the rows dated in [end-13, end-7].
C26_WindowsByDate ==
  (IsCalcReport /\ FetchedRange) =>
    /\ report.used.last7.hrv_avg_ms
         = RoundOrNull(avg(PositiveNumbers(CurrentOfGiven, HrvNumber)), 1)
    /\ report.used.last7.resting_hr_avg_bpm
         = RoundOrNull(avg(PositiveNumbers(CurrentOfGiven, RhrNumber)), 1)
    /\ report.used.last7.sleep_avg_minutes
         = RoundedOrNull(avg(PositiveNumbers(CurrentOfGiven,
                                             SleepMinutesNumber)))
    /\ report.used.prev7.hrv_avg_ms
         = RoundOrNull(avg(PositiveNumbers(PreviousOfGiven, HrvNumber)), 1)
    /\ report.used.prev7.resting_hr_avg_bpm
         = RoundOrNull(avg(PositiveNumbers(PreviousOfGiven, RhrNumber)), 1)
====
